---- MODULE Spec2Model ----
(***************************************************************************)
(* Client-side encryption layer of shard-cipher: the primitives and the    *)
(* file envelope of src/lib/encryption.ts, the download-URL codec, and the *)
(* encrypted file-index managers of src/lib/fileManager.ts and its         *)
(* sibling implementations.                                                *)
(*                                                                         *)
(* Text is a sequence of one-character strings, a byte buffer a sequence   *)
(* of numbers 0..255.  AES-GCM is the ideal AEAD: a ciphertext opens only  *)
(* under the key and IV that made it, and only when no bit was changed.    *)
(* PBKDF2 is an injective function of (password, salt).                    *)
(***************************************************************************)
EXTENDS Integers, Sequences, FiniteSets, TLC

VARIABLES
  enc,      \* the last encryptFile call: its file and what it returned
  dec,      \* the last decryptFile call: its arguments and its outcome
  url,      \* the last download URL built: who built it, from what, its text
  parsed,   \* what parseUrlFragment returned on the page at that URL
  impl,     \* which of the coexisting file-manager implementations is running
  world,    \* backend and page: index row, encrypted_files rows, storage objects,
            \* audit log, password cache, sessionStorage, random draws made
  ret,      \* the last file-manager call: its name, arguments and outcome
  pc        \* per browser tab: where it is in an index call that runs step by step

vars == << enc, dec, url, parsed, impl, world, ret, pc >>

\* what atob yields in this model when it throws InvalidCharacterError
InvalidBytes == <<-1>>
\* URLSearchParams.get of an absent name (null), and the undefined of "|| undefined"
Null == <<"null">>
Undefined == <<"undefined">>

(***************************************************************************)
(* Text helpers                                                            *)
(***************************************************************************)
RECURSIVE Concat(_)
\* const x = E; ...rest: E is worked out once and rest runs with its value as x
With(x, Rest(_)) == Rest(x)

Concat(ss) == IF ss = <<>> THEN <<>> ELSE Head(ss) \o Concat(Tail(ss))

\* position of the first occurrence of character c in s, 0 when absent
IndexOf(s, c) ==
  IF \E i \in 1..Len(s) : s[i] = c
  THEN CHOOSE i \in 1..Len(s) : s[i] = c /\ \A j \in 1..(i-1) : s[j] # c
  ELSE 0

\* String.prototype.substring(from) with a 1-based start
SubstringFrom(s, from) == IF from > Len(s) THEN <<>> ELSE SubSeq(s, from, Len(s))

\* sub occurs in s as a contiguous run
Contains(s, sub) ==
  \/ sub = <<>>
  \/ \E i \in 1..(Len(s) - Len(sub) + 1) : SubSeq(s, i, i + Len(sub) - 1) = sub

RECURSIVE SplitOn(_, _)
SplitOn(s, c) ==
  LET i == IndexOf(s, c)
  IN IF i = 0 THEN <<s>> ELSE <<SubSeq(s, 1, i-1)>> \o SplitOn(SubstringFrom(s, i+1), c)

(***************************************************************************)
(* Base64: btoa and atob of the browser                                    *)
(***************************************************************************)
B64Chars ==
  << "A","B","C","D","E","F","G","H","I","J","K","L","M","N","O","P",
     "Q","R","S","T","U","V","W","X","Y","Z","a","b","c","d","e","f",
     "g","h","i","j","k","l","m","n","o","p","q","r","s","t","u","v",
     "w","x","y","z","0","1","2","3","4","5","6","7","8","9","+","/" >>

B64Set == { B64Chars[i] : i \in 1..64 }

B64Index(c) == (CHOOSE i \in 1..64 : B64Chars[i] = c) - 1

AsciiWhitespace == { " ", "\t", "\n", "\r" }

\* btoa over a binary string whose code units are the bytes
btoa(bytes) ==
  LET n == Len(bytes)
      At(i) == IF i <= n THEN bytes[i] ELSE 0
      Sextet(j) ==
        LET g   == (j - 1) \div 4
            pos == (j - 1) % 4
            v   == At(3*g + 1) * 65536 + At(3*g + 2) * 256 + At(3*g + 3)
        IN IF pos = 0 THEN v \div 262144
           ELSE IF pos = 1 THEN (v \div 4096) % 64
           ELSE IF pos = 2 THEN (v \div 64) % 64
           ELSE v % 64
      Char(j) ==
        LET g   == (j - 1) \div 4
            pos == (j - 1) % 4
        IN IF (pos = 2 /\ 3*g + 2 > n) \/ (pos = 3 /\ 3*g + 3 > n)
           THEN "="
           ELSE B64Chars[Sextet(j) + 1]
  IN [j \in 1..(4 * ((n + 2) \div 3)) |-> Char(j)]

\* atob: the forgiving-base64 decode; InvalidBytes when it throws
atob(text) ==
  With(SelectSeq(text, LAMBDA c : c \notin AsciiWhitespace), LAMBDA stripped :
  With(IF Len(stripped) % 4 = 0 /\ Len(stripped) >= 2
          /\ stripped[Len(stripped)] = "=" /\ stripped[Len(stripped) - 1] = "="
         THEN SubSeq(stripped, 1, Len(stripped) - 2)
       ELSE IF Len(stripped) % 4 = 0 /\ Len(stripped) >= 1 /\ stripped[Len(stripped)] = "="
         THEN SubSeq(stripped, 1, Len(stripped) - 1)
       ELSE stripped, LAMBDA unpadded :
    LET k == Len(unpadded)
        V(i) == IF i <= k THEN B64Index(unpadded[i]) ELSE 0
        outLen == 3 * (k \div 4) + (IF k % 4 = 0 THEN 0 ELSE (k % 4) - 1)
        Byte(j) ==
          With(V(4 * ((j - 1) \div 3) + 1) * 262144 + V(4 * ((j - 1) \div 3) + 2) * 4096
               + V(4 * ((j - 1) \div 3) + 3) * 64 + V(4 * ((j - 1) \div 3) + 4), LAMBDA v :
            IF (j - 1) % 3 = 0 THEN v \div 65536
            ELSE IF (j - 1) % 3 = 1 THEN (v \div 256) % 256
            ELSE v % 256)
    IN IF k % 4 = 1 \/ \E i \in 1..k : unpadded[i] \notin B64Set
       THEN InvalidBytes
       ELSE [j \in 1..outLen |-> Byte(j)]))

\* encryption.ts: bytes -> binary string -> btoa
arrayBufferToBase64(buffer) == btoa(buffer)

\* encryption.ts: atob -> char codes -> bytes
base64ToArrayBuffer(base64) == atob(base64)

(***************************************************************************)
(* URL text: encodeURIComponent, the fragment, URLSearchParams             *)
(***************************************************************************)
AlphaNum == { B64Chars[i] : i \in 1..62 }
UriUnreservedMarks == { "-", "_", ".", "!", "~", "*", "'", "(", ")" }

\* the percent-escapes of the non-alphanumeric characters that occur in URLs here
PctTable ==
  { <<"+", <<"%","2","B">> >>, <<"/", <<"%","2","F">> >>, <<"=", <<"%","3","D">> >>,
    <<"&", <<"%","2","6">> >>, <<"#", <<"%","2","3">> >>, <<"?", <<"%","3","F">> >>,
    <<" ", <<"%","2","0">> >>, <<"%", <<"%","2","5">> >>, <<":", <<"%","3","A">> >> }

PctOf(c) == (CHOOSE e \in PctTable : e[1] = c)[2]

RECURSIVE encodeURIComponent(_)
encodeURIComponent(s) ==
  IF s = <<>> THEN <<>>
  ELSE (IF Head(s) \in AlphaNum \cup UriUnreservedMarks THEN <<Head(s)>> ELSE PctOf(Head(s)))
       \o encodeURIComponent(Tail(s))

\* percent-decode of the form-urlencoded parser
RECURSIVE PercentDecode(_)
PercentDecode(s) ==
  IF s = <<>> THEN <<>>
  ELSE IF Head(s) = "%" /\ Len(s) >= 3 /\ \E e \in PctTable : e[2] = SubSeq(s, 1, 3)
    THEN <<(CHOOSE e \in PctTable : e[2] = SubSeq(s, 1, 3))[1]>> \o PercentDecode(SubstringFrom(s, 4))
  ELSE <<Head(s)>> \o PercentDecode(Tail(s))

PlusToSpace(s) == [i \in 1..Len(s) |-> IF s[i] = "+" THEN " " ELSE s[i]]

\* new URLSearchParams(text): the list of <<name, value>> pairs
URLSearchParams(text) ==
  LET parts == SelectSeq(SplitOn(text, "&"), LAMBDA p : p # <<>>)
      Pair(p) ==
        LET i == IndexOf(p, "=")
            name  == IF i = 0 THEN p ELSE SubSeq(p, 1, i - 1)
            value == IF i = 0 THEN <<>> ELSE SubstringFrom(p, i + 1)
        IN << PercentDecode(PlusToSpace(name)), PercentDecode(PlusToSpace(value)) >>
  IN [i \in 1..Len(parts) |-> Pair(parts[i])]

\* URLSearchParams.get: the first value of that name, or null
ParamsGet(params, name) ==
  IF \E i \in 1..Len(params) : params[i][1] = name
  THEN params[CHOOSE i \in 1..Len(params) :
                params[i][1] = name /\ \A j \in 1..(i-1) : params[j][1] # name][2]
  ELSE Null

\* window.location.hash of a page whose address is href: "#..." or the empty string
LocationHash(href) ==
  LET i == IndexOf(href, "#")
  IN IF i = 0 \/ i = Len(href) THEN <<>> ELSE SubstringFrom(href, i)

\* the part of an address that goes into the HTTP request: everything before '#'
RequestTarget(href) ==
  LET i == IndexOf(href, "#")
  IN IF i = 0 THEN href ELSE SubSeq(href, 1, i - 1)

Origin == <<"h",":","/","/","a">>
Txt_f == <<"/","f","/">>
Txt_download == <<"/","d","o","w","n","l","o","a","d","/">>
Txt_key == <<"k","e","y">>
Txt_iv == <<"i","v">>
Txt_hashKey == <<"#","k","e","y","=">>
Txt_queryKey == <<"?","k","e","y","=">>
Txt_ampIv == <<"&","i","v","=">>

(***************************************************************************)
(* Values: JavaScript values, text, byte buffers                           *)
(***************************************************************************)
JsUndefined == [js |-> "undefined"]
JsNull == [js |-> "null"]
JsNumber(n) == [js |-> "number", num |-> n]
JsObject(r) == [js |-> "object", obj |-> r]
JsArray(a) == [js |-> "array", arr |-> a]

\* a thrown exception or rejected promise, and a normal completion
Throw(msg) == [ok |-> FALSE, error |-> msg]
Return(v) == [ok |-> TRUE, value |-> v]

\* an ArrayBuffer of known bytes
Bytes(b) == [buf |-> "bytes", bytes |-> b]

\* JSON.stringify: undefined or a hole in an array is written as null
JSONStringify(v) ==
  [txt |-> "json",
   json |-> IF v.js = "array"
            THEN JsArray([i \in 1..Len(v.arr) |->
                           IF v.arr[i].js = "undefined" THEN JsNull ELSE v.arr[i]])
            ELSE v]

\* new TextEncoder().encode(text): the UTF-8 bytes of a text
TextEncode(text) == [buf |-> "utf8", text |-> text]

\* new TextDecoder().decode(buffer): never throws
TextDecode(buffer) ==
  IF buffer.buf = "utf8" THEN buffer.text ELSE [txt |-> "raw", bytes |-> buffer.bytes]

\* JSON.parse: of the text JSON.stringify wrote, its value; of other bytes, their
\* value when they spell JSON (the one-byte text "1" is the number 1), else SyntaxError
JSONParse(text) ==
  IF text.txt = "json" THEN Return(text.json)
  ELSE IF text.bytes = <<49>> THEN Return(JsNumber(1))
  ELSE Throw("SyntaxError")

(***************************************************************************)
(* Web Crypto                                                              *)
(***************************************************************************)
KeyBits == 256
IvBytes == 12
SaltBytes == 16

\* a CryptoKey: raw key bytes, or the key PBKDF2 derives from (password, salt)
RawKey(bytes) == [kind |-> "raw", bytes |-> bytes]
Pbkdf2Key(password, salt) == [kind |-> "pbkdf2", password |-> password, salt |-> salt]

\* crypto.subtle.importKey('raw', bytes, 'AES-GCM'): AES keys are 128, 192 or 256 bits
importKey(bytes) ==
  IF bytes # InvalidBytes /\ 8 * Len(bytes) \in {128, 192, 256}
  THEN Return(RawKey(bytes))
  ELSE Throw("DataError")

\* crypto.subtle.exportKey('raw', key)
exportKey(key) == key.bytes

\* crypto.subtle.encrypt({name: 'AES-GCM', iv}, key, data): ciphertext and tag;
\* flip = 0 marks the bits as encrypt produced them
AesGcmEncrypt(iv, key, data) == [k |-> key, n |-> iv, p |-> data, flip |-> 0]

\* crypto.subtle.decrypt({name: 'AES-GCM', iv}, key, data): the tag verifies only
\* under the same key and IV and with no bit changed
AesGcmDecrypt(iv, key, data) ==
  IF data.k = key /\ data.n = iv /\ data.flip = 0
  THEN Return(data.p)
  ELSE Throw("OperationError")

\* a ciphertext with a bit flipped (in the body or in the tag)
FlipBit(ct) == [ct EXCEPT !.flip = 1]

\* arrayBufferToBase64 of a ciphertext, and base64ToArrayBuffer of such a text
CipherToBase64(ct) == [b64 |-> "cipher", ct |-> ct]
MalformedBase64 == [b64 |-> "malformed"]
Base64ToCipher(text) ==
  IF text.b64 = "cipher" THEN Return(text.ct) ELSE Throw("InvalidCharacterError")

(***************************************************************************)
(* File envelope: encryptFile and decryptFile of encryption.ts             *)
(***************************************************************************)
\* the random values of crypto.subtle.generateKey and crypto.getRandomValues
KeyPool == { [i \in 1..(KeyBits \div 8) |-> 251],
             [i \in 1..(KeyBits \div 8) |-> 0],
             [i \in 1..(KeyBits \div 8) |-> i] }
IvPool == { [i \in 1..IvBytes |-> 0],
            [i \in 1..IvBytes |-> 251],
            [i \in 1..IvBytes |-> 16 * i] }

\* the File objects handed to upload: "hello12345", the JSON text "1", an empty file
FilePool ==
  { [name |-> "hello.txt", type |-> "text/plain", lastModified |-> 1,
     bytes |-> <<104, 101, 108, 108, 111, 49, 50, 51, 52, 53>>],
    [name |-> "one.json", type |-> "application/json", lastModified |-> 2,
     bytes |-> <<49>>],
    [name |-> "empty.bin", type |-> "", lastModified |-> 1, bytes |-> <<>>] }

\* File.size
FileSize(file) == Len(file.bytes)

\* generateFileKey: a fresh extractable AES-GCM key
generateFileKey(rawKey) == RawKey(rawKey)

\* encryptFile with the metadata encrypted under an IV of its own (as encryptData
\* would pick one) while the IV of the file body is the one returned
encryptFile_metadataOwnIv(file, rawKey, iv, now) ==
  LET key == generateFileKey(rawKey)
      metadataIv == [i \in 1..IvBytes |-> (iv[i] + 1) % 256]
      metadata == JsObject([originalName |-> file.name, size |-> FileSize(file),
                            type |-> file.type, lastModified |-> file.lastModified,
                            encryptedAt |-> now])
  IN [encryptedFile |-> AesGcmEncrypt(iv, key, Bytes(file.bytes)),
      encryptedMetadata |->
        CipherToBase64(AesGcmEncrypt(metadataIv, key, TextEncode(JSONStringify(metadata)))),
      key |-> arrayBufferToBase64(exportKey(key)),
      iv |-> arrayBufferToBase64(iv)]

\* encryptFile(file); rawKey, iv and now are the values generateFileKey,
\* generateIV and Date.now() produce in this call
encryptFile(file, rawKey, iv, now) ==
  LET key == generateFileKey(rawKey)
      fileBuffer == Bytes(file.bytes)
      encryptedFile == AesGcmEncrypt(iv, key, fileBuffer)
      metadata == JsObject([originalName |-> file.name, size |-> FileSize(file),
                            type |-> file.type, lastModified |-> file.lastModified,
                            encryptedAt |-> now])
      metadataBuffer == TextEncode(JSONStringify(metadata))
      encryptedMetadataBuffer == AesGcmEncrypt(iv, key, metadataBuffer)
      exportedKey == exportKey(key)
  IN [encryptedFile |-> encryptedFile,
      encryptedMetadata |-> CipherToBase64(encryptedMetadataBuffer),
      key |-> arrayBufferToBase64(exportedKey),
      iv |-> arrayBufferToBase64(iv)]

\* new Blob([buffer], {type}): an undefined type is the empty string
Blob(buffer, type) == [content |-> buffer, type |-> type]

\* metadata.type: TypeError on null, undefined on a value without that property
MetadataType(metadata) ==
  IF metadata.js = "null" THEN Throw("TypeError")
  ELSE IF metadata.js = "object" THEN Return(metadata.obj.type)
  ELSE Return("")

\* decryptFile(encryptedFile, encryptedMetadata, keyBase64, ivBase64): the value it
\* resolves to or the rejection; began lists the decryptions it started, in order
decryptFile(encryptedFile, encryptedMetadata, keyBase64, ivBase64) ==
  LET Fail(e, b) == [ok |-> FALSE, error |-> e, began |-> b]
  IN
  With(base64ToArrayBuffer(keyBase64), LAMBDA keyBuffer :
  With(base64ToArrayBuffer(ivBase64), LAMBDA iv :
    IF keyBuffer = InvalidBytes \/ iv = InvalidBytes
    THEN Fail("InvalidCharacterError", <<>>)
    ELSE
  With(importKey(keyBuffer), LAMBDA key :
    IF ~key.ok THEN Fail(key.error, <<>>) ELSE
  With(AesGcmDecrypt(iv, key.value, encryptedFile), LAMBDA decryptedFile :
    IF ~decryptedFile.ok THEN Fail(decryptedFile.error, <<"file">>) ELSE
  With(Base64ToCipher(encryptedMetadata), LAMBDA encryptedMetadataBuffer :
    IF ~encryptedMetadataBuffer.ok THEN Fail(encryptedMetadataBuffer.error, <<"file">>) ELSE
  With(AesGcmDecrypt(iv, key.value, encryptedMetadataBuffer.value),
       LAMBDA decryptedMetadataBuffer :
    IF ~decryptedMetadataBuffer.ok
    THEN Fail(decryptedMetadataBuffer.error, <<"file", "metadata">>) ELSE
  With(JSONParse(TextDecode(decryptedMetadataBuffer.value)), LAMBDA metadata :
    IF ~metadata.ok THEN Fail(metadata.error, <<"file", "metadata">>) ELSE
  With(MetadataType(metadata.value), LAMBDA type :
    IF ~type.ok THEN Fail(type.error, <<"file", "metadata">>)
    ELSE [ok |-> TRUE, began |-> <<"file", "metadata">>,
          file |-> Blob(decryptedFile.value, type.value),
          metadata |-> metadata.value]))))))))

(***************************************************************************)
(* Download-URL codec                                                      *)
(***************************************************************************)
\* generateDownloadUrl of encryption.ts
generateDownloadUrl(fileId, key, iv) ==
  Concat(<< Origin, Txt_f, fileId, Txt_hashKey, key, Txt_ampIv, iv >>)

\* the downloadUrl uploadEncryptedFile builds in fileManager.ts (prompting variant)
UploadDownloadUrl(fileId, key, iv) ==
  Concat(<< Origin, Txt_f, fileId, Txt_hashKey, encodeURIComponent(key),
            Txt_ampIv, encodeURIComponent(iv) >>)

\* the downloadUrl uploadEncryptedFile builds in the key-wrapping variant
WrappedUploadDownloadUrl(fileId, key, iv) ==
  Concat(<< Origin, Txt_download, fileId, Txt_queryKey, encodeURIComponent(key),
            Txt_ampIv, encodeURIComponent(iv) >>)

\* parseUrlFragment() on the page whose address is href
parseUrlFragment(href) ==
  LET fragment == SubstringFrom(LocationHash(href), 2)
      params == URLSearchParams(fragment)
      OrUndefined(v) == IF v = Null \/ v = <<>> THEN Undefined ELSE v
  IN [key |-> OrUndefined(ParamsGet(params, Txt_key)),
      iv |-> OrUndefined(ParamsGet(params, Txt_iv))]

(***************************************************************************)
(* Index blob: encryptFileList and decryptFileList of encryption.ts        *)
(***************************************************************************)
\* the n-th value the random source returns, a buffer of len bytes; values of
\* different draws differ
RandomBytes(n, len) == [i \in 1..len |-> (16 * n + i) % 256]

\* deriveKeyFromPassword: PBKDF2-HMAC-SHA256, 100000 iterations
deriveKeyFromPassword(password, salt) == Pbkdf2Key(password, salt)

\* generateSalt and generateIV, n the draw
generateSalt(n) == RandomBytes(n, SaltBytes)
generateIV(n) == RandomBytes(n, IvBytes)

\* the base64 text of the IV followed by the ciphertext with its tag
CombinedToBase64(iv, ct) == [b64 |-> "combined", head |-> iv, ct |-> ct]

\* a salt argument that was left out
NoSalt == <<>>

\* encryptFileList(fileList, password, salt?) that returns the salt it was given, which
\* is none when it generated the salt itself
encryptFileList_saltGiven(fileList, password, salt, n) ==
  LET saltToUse == IF salt # NoSalt THEN salt ELSE generateSalt(n)
      key == deriveKeyFromPassword(password, saltToUse)
      iv == generateIV(n + 1)
      listBuffer == TextEncode(JSONStringify(JsArray(fileList)))
      encryptedBuffer == AesGcmEncrypt(iv, key, listBuffer)
  IN [encryptedList |-> CombinedToBase64(iv, encryptedBuffer),
      salt |-> arrayBufferToBase64(salt)]

\* encryptFileList(fileList, password, salt?) that takes the first bytes of the salt
\* for the IV and generates none
encryptFileList_ivFromSalt(fileList, password, salt, n) ==
  LET saltToUse == IF salt # NoSalt THEN salt ELSE generateSalt(n)
      key == deriveKeyFromPassword(password, saltToUse)
      iv == SubSeq(saltToUse, 1, IvBytes)
      listBuffer == TextEncode(JSONStringify(JsArray(fileList)))
      encryptedBuffer == AesGcmEncrypt(iv, key, listBuffer)
  IN [encryptedList |-> CombinedToBase64(iv, encryptedBuffer),
      salt |-> arrayBufferToBase64(saltToUse)]

\* encryptFileList(fileList, password, salt?): a salt that is given is used, else one
\* is generated (draw n); the IV is generated (draw n + 1)
encryptFileList(fileList, password, salt, n) ==
  LET saltToUse == IF salt # NoSalt THEN salt ELSE generateSalt(n)
      key == deriveKeyFromPassword(password, saltToUse)
      iv == generateIV(n + 1)
      listBuffer == TextEncode(JSONStringify(JsArray(fileList)))
      encryptedBuffer == AesGcmEncrypt(iv, key, listBuffer)
  IN [encryptedList |-> CombinedToBase64(iv, encryptedBuffer),
      salt |-> arrayBufferToBase64(saltToUse)]

\* the length of the IV prefix decryptFileList splits off
ListIvPrefix == 12

\* decryptFileList(encryptedList, password, saltBase64)
decryptFileList(encryptedList, password, saltBase64) ==
  With(base64ToArrayBuffer(saltBase64), LAMBDA salt :
    IF salt = InvalidBytes THEN Throw("InvalidCharacterError")
    ELSE IF encryptedList.b64 # "combined" THEN Throw("InvalidCharacterError")
    ELSE IF Len(encryptedList.head) < ListIvPrefix THEN Throw("OperationError")
    ELSE
  With(AesGcmDecrypt(SubSeq(encryptedList.head, 1, ListIvPrefix),
                     deriveKeyFromPassword(password, salt),
                     IF Len(encryptedList.head) = ListIvPrefix
                     THEN encryptedList.ct ELSE FlipBit(encryptedList.ct)),
       LAMBDA decryptedBuffer :
    IF ~decryptedBuffer.ok THEN decryptedBuffer
    ELSE JSONParse(TextDecode(decryptedBuffer.value))))

(***************************************************************************)
(* File records and the array methods the index managers use               *)
(***************************************************************************)
\* no password: null, or the empty string, which every check treats like null
NoPassword == ""

\* fileList.findIndex(f => f.fileId === fileId): 0 for -1; reading .fileId of a
\* null element that is reached before a match is a TypeError
FirstNull(list) ==
  IF \E i \in 1..Len(list) : list[i].js # "object"
  THEN CHOOSE i \in 1..Len(list) :
         list[i].js # "object" /\ \A j \in 1..(i-1) : list[j].js = "object"
  ELSE 0

FirstMatch(list, fileId) ==
  IF \E i \in 1..Len(list) : list[i].js = "object" /\ list[i].obj.fileId = fileId
  THEN CHOOSE i \in 1..Len(list) :
         /\ list[i].js = "object" /\ list[i].obj.fileId = fileId
         /\ \A j \in 1..(i-1) : ~(list[j].js = "object" /\ list[j].obj.fileId = fileId)
  ELSE 0

findIndex(list, fileId) ==
  With(FirstNull(list), LAMBDA firstNull :
  With(FirstMatch(list, fileId), LAMBDA firstMatch :
    IF firstNull # 0 /\ (firstMatch = 0 \/ firstNull < firstMatch)
    THEN Throw("TypeError")
    ELSE Return(JsNumber(firstMatch))))

\* fileList.filter(f => f.fileId !== fileId)
filterOut(list, fileId) ==
  IF FirstNull(list) # 0 THEN Throw("TypeError")
  ELSE Return(JsArray(SelectSeq(list, LAMBDA f : f.obj.fileId # fileId)))

\* the fileIds of the records of a list, with repetition
FileIdsOf(list) == [i \in 1..Len(list) |-> IF list[i].js = "object" THEN list[i].obj.fileId ELSE <<>>]

\* how many records of a list carry that fileId
CountOf(list, fileId) ==
  Cardinality({ i \in 1..Len(list) : list[i].js = "object" /\ list[i].obj.fileId = fileId })

(***************************************************************************)
(* Backend and page state                                                  *)
(***************************************************************************)
NoRow == [exists |-> FALSE]

\* encrypted_files: the row of a file id
HasFile(w, fileId) == \E r \in w.files : r.file_id = fileId
FileRow(w, fileId) == CHOOSE r \in w.files : r.file_id = fileId

\* storage bucket 'encrypted-files': the object at a path
HasObject(w, path) == \E o \in w.storage : o.path = path
ObjectAt(w, path) == CHOOSE o \in w.storage : o.path = path

\* logAction(action, data): the entry is stored as readable JSON; failures are swallowed
logAction(w, action, data) ==
  [w EXCEPT !.log = @ \cup { [log_type |-> action, encrypted_log_entry |-> data] }]

\* setPassword, getStoredPassword, clearPassword of the stored-password variant
setPassword(w, password) ==
  [w EXCEPT !.cachedPassword = password, !.sessionStorage = password]

getStoredPassword(w) ==
  IF w.cachedPassword # NoPassword
  THEN [password |-> w.cachedPassword, w |-> w]
  ELSE IF w.sessionStorage # NoPassword
    THEN [password |-> w.sessionStorage, w |-> [w EXCEPT !.cachedPassword = w.sessionStorage]]
  ELSE [password |-> NoPassword, w |-> w]

clearPassword(w) ==
  [w EXCEPT !.cachedPassword = NoPassword, !.sessionStorage = NoPassword]

(***************************************************************************)
(* Index manager, stored-password variant (fileManager.ts, second half)    *)
(***************************************************************************)
\* an outcome together with the state it leaves
Done(out, w) == [out |-> out, w |-> w]

\* getUserFileList(password) that takes a user without an index row for an error
Stored_getUserFileList_notFound(w, password) ==
  IF ~w.index.exists THEN Throw("IndexNotFoundError")
  ELSE With(decryptFileList(w.index.encrypted_file_list, password, w.index.salt),
            LAMBDA fileList :
         IF ~fileList.ok THEN Throw("Invalid password or corrupted file list")
         ELSE IF fileList.value.js = "array" THEN fileList
         ELSE Return(JsArray(<<>>)))

\* getUserFileList(password) with a catch that answers the empty list, as the
\* prompting variant has it
Stored_getUserFileList_swallow(w, password) ==
  IF ~w.index.exists THEN Return(JsArray(<<>>))
  ELSE With(decryptFileList(w.index.encrypted_file_list, password, w.index.salt),
            LAMBDA fileList :
         IF ~fileList.ok THEN Return(JsArray(<<>>))
         ELSE IF fileList.value.js = "array" THEN fileList
         ELSE Return(JsArray(<<>>)))

\* getUserFileList(password)
Stored_getUserFileList(w, password) ==
  IF ~w.index.exists THEN Return(JsArray(<<>>))
  ELSE With(decryptFileList(w.index.encrypted_file_list, password, w.index.salt),
            LAMBDA fileList :
         IF ~fileList.ok THEN Throw("Invalid password or corrupted file list")
         ELSE IF fileList.value.js = "array" THEN fileList
         ELSE Return(JsArray(<<>>)))

\* .upsert({user_id, encrypted_file_list, salt}) that first compares the row with the
\* one that was fetched and rejects the write when it changed in between
upsertIndex_compareAndSwap(w, fetched, row) ==
  IF w.index = fetched THEN Done(Return(JsUndefined), [w EXCEPT !.index = row])
  ELSE Done(Throw("ConcurrentModificationError"), w)

\* .upsert({user_id, encrypted_file_list, salt}) on user_file_index, which holds one
\* row per user_id: the row is inserted, or overwritten whatever it holds by now
upsertIndex(w, fetched, row) ==
  Done(Return(JsUndefined), [w EXCEPT !.index = row])

\* .update({encrypted_file_list}).eq('user_id', userId): the row, if there is one,
\* gets the new list whatever it holds by now
updateIndexList(w, fetched, encryptedList) ==
  IF w.index.exists
  THEN Done(Return(JsUndefined), [w EXCEPT !.index.encrypted_file_list = encryptedList])
  ELSE Done(Return(JsUndefined), w)

\* updateUserFileList from the point where the row was fetched (existingData) on;
\* Buffer.from(salt, 'base64') is taken to decode base64 as atob does
Stored_updateFetched(w, existingData, newFile, password) ==
  With(IF existingData.exists
       THEN decryptFileList(existingData.encrypted_file_list, password, existingData.salt)
       ELSE Return(JsArray(<<>>)), LAMBDA decrypted :
    IF ~decrypted.ok THEN Done(Throw("Invalid password for existing file list"), w) ELSE
  With(IF existingData.exists THEN w.rnd ELSE w.rnd + 1, LAMBDA drawn :
  With(IF existingData.exists THEN existingData.salt
       ELSE arrayBufferToBase64(generateSalt(drawn)), LAMBDA salt :
  With(decrypted.value.arr, LAMBDA fileList :
  With(IF fileList = <<>> THEN Return(JsNumber(0))
       ELSE findIndex(fileList, newFile.obj.fileId), LAMBDA existingIndex :
    IF ~existingIndex.ok THEN Done(existingIndex, [w EXCEPT !.rnd = drawn]) ELSE
  With(IF existingIndex.value.num > 0
       THEN [fileList EXCEPT ![existingIndex.value.num] = newFile]
       ELSE Append(fileList, newFile), LAMBDA merged :
    upsertIndex([w EXCEPT !.rnd = drawn + 1], existingData,
                [exists |-> TRUE,
                 encrypted_file_list |->
                   encryptFileList(merged, password, base64ToArrayBuffer(salt),
                                   drawn).encryptedList,
                 salt |-> salt])))))))

\* updateUserFileList(userId, newFile, password)
Stored_updateUserFileList(w, newFile, password) ==
  Stored_updateFetched(w, w.index, newFile, password)

\* removeFromUserFileList from the point where the row was fetched on
Stored_removeFetched(w, existingData, fileId, password) ==
  IF ~existingData.exists THEN Done(Return(JsUndefined), w) ELSE
  With(decryptFileList(existingData.encrypted_file_list, password, existingData.salt),
       LAMBDA decrypted :
    IF ~decrypted.ok THEN Done(Throw("Invalid password for file list decryption"), w) ELSE
  With(filterOut(decrypted.value.arr, fileId), LAMBDA updatedList :
    IF ~updatedList.ok THEN Done(updatedList, w)
    ELSE updateIndexList([w EXCEPT !.rnd = w.rnd + 1], existingData,
                         encryptFileList(updatedList.value.arr, password,
                                         base64ToArrayBuffer(existingData.salt),
                                         w.rnd).encryptedList)))

\* removeFromUserFileList(userId, fileId, password)
Stored_removeFromUserFileList(w, fileId, password) ==
  Stored_removeFetched(w, w.index, fileId, password)

\* the record uploadEncryptedFile puts into the index; no expiry is asked for
FileRecord(fileId, file, maxDownloads, key, iv) ==
  JsObject([id |-> fileId, fileId |-> fileId, originalName |-> file.name,
            size |-> FileSize(file), type |-> file.type, uploadDate |-> "now",
            expiresAt |-> JsUndefined, maxDownloads |-> maxDownloads,
            downloadCount |-> 0, key |-> key, iv |-> iv])

\* the encrypted_files row uploadEncryptedFile inserts
FileRowOf(fileId, file, maxDownloads, encryptedMetadata) ==
  [file_id |-> fileId, encrypted_filename |-> encryptedMetadata,
   encrypted_metadata |-> encryptedMetadata, file_size |-> FileSize(file),
   mime_type |-> file.type, storage_path |-> fileId,
   max_downloads |-> maxDownloads, download_count |-> 0]

\* an upload whose file key was generated once, when the module loaded, and is used
\* for every file; the IV is drawn per call
EncryptUpload_moduleKey(w, file) ==
  encryptFile(file, RandomBytes(0, KeyBits \div 8), generateIV(w.rnd + 2), 1000)

\* what an upload draws: key and IV of the file
EncryptUpload(w, file) ==
  encryptFile(file, RandomBytes(w.rnd + 1, KeyBits \div 8), generateIV(w.rnd + 2), 1000)

\* uploadEncryptedFile(file, expiryDays, maxDownloads); fileId is what generate_file_id
\* returns, fault the backend call that fails, if one does
Stored_uploadEncryptedFile(w, file, maxDownloads, fileId, fault) ==
  With(EncryptUpload(w, file), LAMBDA e :
  With([w EXCEPT !.rnd = w.rnd + 2], LAMBDA w1 :
    IF fault = "storage" \/ HasObject(w1, fileId) THEN Done(Throw("uploadError"), w1) ELSE
  With([w1 EXCEPT !.storage = @ \cup { [path |-> fileId, data |-> e.encryptedFile] }],
       LAMBDA w2 :
    IF fault = "database" THEN Done(Throw("metadataError"), w2) ELSE
  With(getStoredPassword(
         [w2 EXCEPT !.files = @ \cup
                      { FileRowOf(fileId, file, maxDownloads, e.encryptedMetadata) }]),
       LAMBDA stored :
    IF stored.password = NoPassword
    THEN Done(Throw("Password required for file encryption"), stored.w) ELSE
  With(Stored_updateUserFileList(stored.w,
         FileRecord(fileId, file, maxDownloads, e.key, e.iv), stored.password),
       LAMBDA updated :
    IF ~updated.out.ok THEN updated
    ELSE Done(Return(JsObject([fileId |-> fileId,
                               downloadUrl |-> generateDownloadUrl(fileId, e.key, e.iv)])),
              logAction(updated.w, "upload",
                        [fileId |-> fileId, fileName |-> file.name,
                         fileSize |-> FileSize(file)])))))))

\* deleteEncryptedFile(fileId)
Stored_deleteEncryptedFile(w, fileId, fault) ==
  IF ~HasFile(w, fileId) THEN Done(Throw("fileError"), w)
  ELSE IF fault = "storage" THEN Done(Throw("storageError"), w) ELSE
  With([w EXCEPT !.storage = { o \in @ : o.path # FileRow(w, fileId).storage_path }],
       LAMBDA w1 :
    IF fault = "database" THEN Done(Throw("dbError"), w1) ELSE
  With(getStoredPassword([w1 EXCEPT !.files = { r \in @ : r.file_id # fileId }]),
       LAMBDA stored :
    IF stored.password = NoPassword
    THEN Done(Throw("Password required for file list decryption"), stored.w) ELSE
  With(Stored_removeFromUserFileList(stored.w, fileId, stored.password), LAMBDA removed :
    IF ~removed.out.ok THEN removed
    ELSE Done(Return(JsUndefined), logAction(removed.w, "delete", [fileId |-> fileId])))))

\* fileList.map(file => file.fileId === fileId ? {...file, downloadCount} : file)
mapDownloadCount(list, fileId, newDownloadCount) ==
  IF FirstNull(list) # 0 THEN Throw("TypeError")
  ELSE Return(JsArray([i \in 1..Len(list) |->
         IF list[i].obj.fileId = fileId
         THEN JsObject([list[i].obj EXCEPT !.downloadCount = newDownloadCount])
         ELSE list[i]]))

\* max_downloads && download_count >= max_downloads
LimitReached(row) ==
  row.max_downloads.js = "number" /\ row.max_downloads.num # 0
  /\ row.download_count >= row.max_downloads.num

\* downloadEncryptedFile(fileId, key, iv); signedIn: supabase.auth.getUser() has a user
Stored_downloadEncryptedFile(w, fileId, key, iv, signedIn, fault) ==
  IF ~HasFile(w, fileId) THEN Done(Throw("File not found"), w) ELSE
  With(FileRow(w, fileId), LAMBDA fileData :
    IF LimitReached(fileData) THEN Done(Throw("Download limit exceeded"), w)
    ELSE IF fault = "storage" \/ ~HasObject(w, fileData.storage_path)
      THEN Done(Throw("storageError"), w) ELSE
  With(decryptFile(ObjectAt(w, fileData.storage_path).data, fileData.encrypted_metadata,
                   key, iv), LAMBDA decrypted :
    IF ~decrypted.ok THEN Done(Throw(decrypted.error), w) ELSE
  With(fileData.download_count + 1, LAMBDA newDownloadCount :
  With([w EXCEPT !.delivered = @ \cup { [fileId |-> fileId, n |-> newDownloadCount] },
                 !.files = (@ \ { fileData })
                           \cup { [fileData EXCEPT !.download_count = newDownloadCount] }],
       LAMBDA w2 :
    IF ~signedIn THEN Done(Return(JsUndefined), logAction(w2, "download", [fileId |-> fileId]))
    ELSE
  With(getStoredPassword(w2), LAMBDA stored :
    IF stored.password = NoPassword
    THEN Done(Return(JsUndefined), logAction(stored.w, "download", [fileId |-> fileId]))
    ELSE
  With(Stored_getUserFileList(stored.w, stored.password), LAMBDA fileList :
    IF ~fileList.ok THEN Done(fileList, stored.w) ELSE
  With(mapDownloadCount(fileList.value.arr, fileId, newDownloadCount),
       LAMBDA updatedFileList :
    IF ~updatedFileList.ok THEN Done(updatedFileList, stored.w) ELSE
  With(Stored_updateUserFileList(stored.w,
         IF updatedFileList.value.arr = <<>> THEN JsUndefined
         ELSE updatedFileList.value.arr[1], stored.password), LAMBDA updated :
    IF ~updated.out.ok THEN updated
    ELSE Done(Return(JsUndefined),
              logAction(updated.w, "download", [fileId |-> fileId]))))))))))

(***************************************************************************)
(* Index manager, prompting variant (fileManager.ts, first half); prompted *)
(* is what the user types into promptForPassword, NoPassword on cancel     *)
(***************************************************************************)
\* getUserFileList(): every error ends in the empty list
Prompt_getUserFileList(w, prompted) ==
  IF ~w.index.exists THEN Return(JsArray(<<>>))
  ELSE IF prompted = NoPassword THEN Return(JsArray(<<>>))
  ELSE With(decryptFileList(w.index.encrypted_file_list, prompted, w.index.salt),
            LAMBDA fileList :
         IF ~fileList.ok THEN Return(JsArray(<<>>)) ELSE fileList)

\* updateUserFileList(userId, newFile) that stores the salt it read from the row, which
\* is the empty text when there was no row, and not the salt of the new list
Prompt_updateUserFileList_rowSalt(w, newFile, prompted) ==
  IF prompted = NoPassword THEN Done(Throw("Password required"), w) ELSE
  With(IF w.index.exists
       THEN decryptFileList(w.index.encrypted_file_list, prompted, w.index.salt)
       ELSE Return(JsArray(<<>>)), LAMBDA currentList :
    IF ~currentList.ok THEN Done(currentList, w) ELSE
    Done(Return(JsUndefined),
         [w EXCEPT !.rnd = w.rnd + 2,
                   !.index = [exists |-> TRUE,
                              encrypted_file_list |->
                                encryptFileList(Append(currentList.value.arr, newFile),
                                                prompted, NoSalt, w.rnd + 1).encryptedList,
                              salt |-> IF w.index.exists THEN w.index.salt ELSE <<>>]]))

\* updateUserFileList(userId, newFile): the new list is encrypted under a salt of its
\* own, the row keeps the salt it had
Prompt_updateUserFileList(w, newFile, prompted) ==
  IF prompted = NoPassword THEN Done(Throw("Password required"), w) ELSE
  With(IF w.index.exists
       THEN decryptFileList(w.index.encrypted_file_list, prompted, w.index.salt)
       ELSE Return(JsArray(<<>>)), LAMBDA currentList :
    IF ~currentList.ok THEN Done(currentList, w) ELSE
  With(encryptFileList(Append(currentList.value.arr, newFile), prompted, NoSalt, w.rnd + 1),
       LAMBDA encrypted :
    Done(Return(JsUndefined),
         [w EXCEPT !.rnd = w.rnd + 2,
                   !.index = [exists |-> TRUE,
                              encrypted_file_list |-> encrypted.encryptedList,
                              salt |-> IF w.index.exists THEN w.index.salt
                                       ELSE encrypted.salt]])))

\* removeFromUserFileList(userId, fileId)
Prompt_removeFromUserFileList(w, fileId, prompted) ==
  IF ~w.index.exists THEN Done(Return(JsUndefined), w)
  ELSE IF prompted = NoPassword THEN Done(Throw("Password required"), w) ELSE
  With(decryptFileList(w.index.encrypted_file_list, prompted, w.index.salt),
       LAMBDA currentList :
    IF ~currentList.ok THEN Done(currentList, w) ELSE
  With(filterOut(currentList.value.arr, fileId), LAMBDA updatedList :
    IF ~updatedList.ok THEN Done(updatedList, w)
    ELSE Done(Return(JsUndefined),
              [w EXCEPT !.rnd = w.rnd + 2,
                        !.index.encrypted_file_list =
                          encryptFileList(updatedList.value.arr, prompted, NoSalt,
                                          w.rnd + 1).encryptedList])))

\* uploadEncryptedFile(file, expiryDays, maxDownloads)
Prompt_uploadEncryptedFile(w, file, maxDownloads, fileId, fault, prompted) ==
  With(EncryptUpload(w, file), LAMBDA e :
  With([w EXCEPT !.rnd = w.rnd + 2], LAMBDA w1 :
    IF fault = "storage" \/ HasObject(w1, fileId) THEN Done(Throw("uploadError"), w1) ELSE
  With([w1 EXCEPT !.storage = @ \cup { [path |-> fileId, data |-> e.encryptedFile] }],
       LAMBDA w2 :
    IF fault = "database" THEN Done(Throw("metadataError"), w2) ELSE
  With(Prompt_updateUserFileList(
         [w2 EXCEPT !.files = @ \cup
                      { FileRowOf(fileId, file, maxDownloads, e.encryptedMetadata) }],
         FileRecord(fileId, file, maxDownloads, e.key, e.iv), prompted), LAMBDA updated :
    IF ~updated.out.ok THEN updated
    ELSE Done(Return(JsObject([fileId |-> fileId,
                               downloadUrl |-> UploadDownloadUrl(fileId, e.key, e.iv)])),
              logAction(updated.w, "upload",
                        [fileId |-> fileId, fileName |-> file.name,
                         fileSize |-> FileSize(file)]))))))

\* deleteEncryptedFile(fileId)
Prompt_deleteEncryptedFile(w, fileId, fault, prompted) ==
  IF ~HasFile(w, fileId) THEN Done(Throw("fileError"), w)
  ELSE IF fault = "storage" THEN Done(Throw("storageError"), w) ELSE
  With([w EXCEPT !.storage = { o \in @ : o.path # FileRow(w, fileId).storage_path }],
       LAMBDA w1 :
    IF fault = "database" THEN Done(Throw("dbError"), w1) ELSE
  With(Prompt_removeFromUserFileList([w1 EXCEPT !.files = { r \in @ : r.file_id # fileId }],
                                     fileId, prompted), LAMBDA removed :
    IF ~removed.out.ok THEN removed
    ELSE Done(Return(JsUndefined), logAction(removed.w, "delete", [fileId |-> fileId]))))

\* downloadEncryptedFile(fileId, key, iv)
Prompt_downloadEncryptedFile(w, fileId, key, iv, fault) ==
  IF ~HasFile(w, fileId) THEN Done(Throw("File not found"), w) ELSE
  With(FileRow(w, fileId), LAMBDA fileData :
    IF LimitReached(fileData) THEN Done(Throw("Download limit exceeded"), w)
    ELSE IF fault = "storage" \/ ~HasObject(w, fileData.storage_path)
      THEN Done(Throw("storageError"), w) ELSE
  With(decryptFile(ObjectAt(w, fileData.storage_path).data, fileData.encrypted_metadata,
                   key, iv), LAMBDA decrypted :
    IF ~decrypted.ok THEN Done(Throw(decrypted.error), w) ELSE
  With(fileData.download_count + 1, LAMBDA newDownloadCount :
    Done(Return(JsUndefined),
         logAction([w EXCEPT !.delivered = @ \cup { [fileId |-> fileId,
                                                     n |-> newDownloadCount] },
                             !.files = (@ \ { fileData })
                               \cup { [fileData EXCEPT !.download_count = newDownloadCount] }],
                   "download", [fileId |-> fileId])))))

(***************************************************************************)
(* SecureDataManager (secureDataManager.ts): the key comes from the user   *)
(* id and the data type, no password                                       *)
(***************************************************************************)
\* deriveUserKey(userId, dataType)
deriveUserKey(userId, dataType) ==
  [kind |-> "pbkdf2", keyMaterial |-> << userId, dataType, "encryption_key_v1" >>,
   saltText |-> << "secure_data_salt_", dataType >>]

\* encryptData(data, userId, dataType); n random values were drawn before
encryptData(data, userId, dataType, n) ==
  LET key == deriveUserKey(userId, dataType)
      iv == generateIV(n + 1)
      dataBuffer == TextEncode(JSONStringify(data))
      encryptedBuffer == AesGcmEncrypt(iv, key, dataBuffer)
  IN JsObject([encryptedContent |-> CipherToBase64(encryptedBuffer),
               salt |-> dataType,
               iv |-> arrayBufferToBase64(iv)])

\* decryptData(encryptedData, userId, dataType)
decryptData(encryptedData, userId, dataType) ==
  IF encryptedData.js # "object" THEN Throw("TypeError") ELSE
  With(base64ToArrayBuffer(encryptedData.obj.iv), LAMBDA iv :
  With(Base64ToCipher(encryptedData.obj.encryptedContent), LAMBDA encrypted :
    IF iv = InvalidBytes \/ ~encrypted.ok THEN Throw("InvalidCharacterError") ELSE
  With(AesGcmDecrypt(iv, deriveUserKey(userId, dataType), encrypted.value),
       LAMBDA decryptedBuffer :
    IF ~decryptedBuffer.ok THEN decryptedBuffer
    ELSE JSONParse(TextDecode(decryptedBuffer.value)))))

\* SecureDataManager.encryptFileList(fileList, userId)
SecureDataManager_encryptFileList(fileList, userId, n) ==
  JSONStringify(encryptData(JsArray(fileList), userId, "file_list", n))

\* SecureDataManager.decryptFileList(encryptedList, userId): every error ends in []
SecureDataManager_decryptFileList(encryptedList, userId) ==
  With(JSONParse(encryptedList), LAMBDA encrypted :
    IF ~encrypted.ok THEN Return(JsArray(<<>>)) ELSE
  With(decryptData(encrypted.value, userId, "file_list"), LAMBDA decrypted :
    IF ~decrypted.ok THEN Return(JsArray(<<>>)) ELSE decrypted))

\* SecureDataManager.storeEncryptedFileList(userId, fileList)
storeEncryptedFileList(w, userId, fileList, fault) ==
  LET encryptedList == SecureDataManager_encryptFileList(fileList, userId, w.rnd)
      w1 == [w EXCEPT !.rnd = w.rnd + 1]
  IN IF fault = "database" THEN Done(Throw("error"), w1)
     ELSE Done(Return(JsUndefined),
               [w1 EXCEPT !.index = [exists |-> TRUE, encrypted_file_list |-> encryptedList,
                                     salt |-> "encrypted_v1"]])

\* SecureDataManager.getDecryptedFileList(userId)
getDecryptedFileList(w, userId, fault) ==
  IF fault = "database" THEN Throw("error")
  ELSE IF ~w.index.exists THEN Return(JsArray(<<>>))
  ELSE SecureDataManager_decryptFileList(w.index.encrypted_file_list, userId)

(***************************************************************************)
(* Index manager, key-wrapping variant (src/unnamed/part_007): the file    *)
(* key and IV go into the index wrapped under the user's master key        *)
(***************************************************************************)
\* str.trim()
Trim(str) ==
  IF \A i \in 1..Len(str) : str[i] \in AsciiWhitespace THEN <<>>
  ELSE SubSeq(str,
              CHOOSE i \in 1..Len(str) :
                str[i] \notin AsciiWhitespace /\ \A j \in 1..(i-1) : str[j] \in AsciiWhitespace,
              CHOOSE i \in 1..Len(str) :
                str[i] \notin AsciiWhitespace
                /\ \A j \in (i+1)..Len(str) : str[j] \in AsciiWhitespace)

\* safeAtob(str): the empty text is refused, the text is trimmed and padded with '='
\* to a multiple of four, then atob; InvalidBytes when it throws
safeAtob(str) ==
  IF str = <<>> THEN InvalidBytes
  ELSE With(Trim(str), LAMBDA cleanStr :
         atob(cleanStr \o [i \in 1..((4 - (Len(cleanStr) % 4)) % 4) |-> "="]))

\* safeBtoa(buffer)
safeBtoa(buffer) == btoa(buffer)

\* the master key of the signed-in user, as the auth context hands it to the calls,
\* and what the context holds when nobody is signed in
MasterKey == RawKey([i \in 1..(KeyBits \div 8) |-> 7])
NoKey == [kind |-> "none"]

\* updateUserFileList(userId, password, newFile, masterKeyIv): a list that cannot be
\* decrypted counts as empty; the list is encrypted under a fresh salt (draw n) and
\* IV (draw n + 1); the outcome of the upsert is not looked at
Wrapped_updateUserFileList(w, password, newFile, masterKeyIv) ==
  With(IF w.index.exists
       THEN decryptFileList(w.index.encrypted_file_list, password, w.index.salt)
       ELSE Return(JsArray(<<>>)), LAMBDA decrypted :
  With(IF ~decrypted.ok THEN Return(JsArray(<<>>))
       ELSE IF decrypted.value.js # "array" THEN Throw("TypeError")
       ELSE filterOut(decrypted.value.arr, newFile.obj.fileId), LAMBDA updatedFiles :
    IF ~updatedFiles.ok THEN Done(updatedFiles, w) ELSE
  With(encryptFileList(Append(updatedFiles.value.arr, newFile), password, NoSalt, w.rnd + 1),
       LAMBDA encrypted :
    Done(Return(JsUndefined),
         [w EXCEPT !.rnd = w.rnd + 2,
                   !.index = [exists |-> TRUE,
                              encrypted_file_list |-> encrypted.encryptedList,
                              salt |-> encrypted.salt,
                              iv |-> masterKeyIv]]))))

\* a text that is stored as it is, not encrypted
PlainText(text) == [txt |-> "plain", text |-> text]

\* the encrypted_files row this uploadEncryptedFile inserts: the file name is stored
\* as it is
WrappedFileRowOf(fileId, file, maxDownloads, encryptedMetadata) ==
  [file_id |-> fileId, encrypted_filename |-> PlainText(file.name),
   encrypted_metadata |-> [txt |-> "json", json |-> encryptedMetadata],
   file_size |-> FileSize(file),
   mime_type |-> file.type, storage_path |-> fileId,
   max_downloads |-> maxDownloads, download_count |-> 0]

\* the record this uploadEncryptedFile puts into the index: key and IV of the file,
\* each encrypted under userKey with the one masterKeyIv
WrappedFileRecord(fileId, file, maxDownloads, userKey, masterKeyIv, keyBuffer, ivBuffer) ==
  JsObject([id |-> "1000", fileId |-> fileId, originalName |-> file.name,
            size |-> FileSize(file), type |-> file.type, uploadDate |-> "now",
            expiresAt |-> JsUndefined, maxDownloads |-> maxDownloads, downloadCount |-> 0,
            encryptedKey |-> CipherToBase64(AesGcmEncrypt(masterKeyIv, userKey, Bytes(keyBuffer))),
            encryptedIv |-> CipherToBase64(AesGcmEncrypt(masterKeyIv, userKey, Bytes(ivBuffer)))])

\* uploadEncryptedFile(file, userKey, password, expiryDays, maxDownloads)
Wrapped_uploadEncryptedFile(w, file, userKey, password, maxDownloads, fileId, fault) ==
  IF userKey = NoKey THEN Done(Throw("Invalid user encryption key. Please log in again."), w)
  ELSE
  With(EncryptUpload(w, file), LAMBDA e :
  With([w EXCEPT !.rnd = w.rnd + 2], LAMBDA w1 :
    IF fault = "storage" \/ HasObject(w1, fileId) THEN Done(Throw("uploadError"), w1) ELSE
  With([w1 EXCEPT !.storage = @ \cup { [path |-> fileId, data |-> e.encryptedFile] }],
       LAMBDA w2 :
    IF fault = "database" THEN Done(Throw("dbError"), w2) ELSE
  With([w2 EXCEPT !.files = @ \cup
                    { WrappedFileRowOf(fileId, file, maxDownloads, e.encryptedMetadata) },
                  !.rnd = @ + 1], LAMBDA w3 :
  With(Wrapped_updateUserFileList(w3, password,
         WrappedFileRecord(fileId, file, maxDownloads, userKey, generateIV(w3.rnd),
                           safeAtob(e.key), safeAtob(e.iv)),
         safeBtoa(generateIV(w3.rnd))), LAMBDA updated :
    IF ~updated.out.ok THEN updated
    ELSE Done(Return(JsObject([fileId |-> fileId,
                               downloadUrl |-> WrappedUploadDownloadUrl(fileId, e.key, e.iv)])),
              updated.w))))))

\* the password getUserFileList and getDecryptedFileList decrypt the list with
DummyPassword == "dummy-password"

\* the texts getDecryptedFileList puts in the place of a key or an IV it cannot give
Txt_legacy ==
  << "L","e","g","a","c","y"," ","f","i","l","e"," ","-"," ","n","o"," ","k","e","y"," ","e","n","c","r","y","p","t","i","o","n" >>
Txt_missingKeyData == << "M","i","s","s","i","n","g"," ","k","e","y"," ","d","a","t","a" >>
Txt_decryptionFailed == << "D","e","c","r","y","p","t","i","o","n"," ","f","a","i","l","e","d" >>

\* {...fileWithoutEncrypted, key, iv}: the record without encryptedKey and
\* encryptedIv, with key and iv
WithKeyAndIv(file, key, iv) ==
  JsObject([f \in (DOMAIN file.obj \ { "encryptedKey", "encryptedIv" }) \cup { "key", "iv" } |->
              IF f = "key" THEN key ELSE IF f = "iv" THEN iv ELSE file.obj[f]])

\* the body of the map in getDecryptedFileList: key and IV of one record are decrypted
\* under userKey with the IV of the index row; every error ends in 'Decryption failed'
UnwrapRecord(file, userKey, rowIv) ==
  IF "encryptedKey" \notin DOMAIN file.obj \/ "encryptedIv" \notin DOMAIN file.obj
  THEN WithKeyAndIv(file, Txt_missingKeyData, Txt_missingKeyData) ELSE
  With(safeAtob(rowIv), LAMBDA masterKeyIv :
  With(Base64ToCipher(file.obj.encryptedKey), LAMBDA encryptedKeyBuffer :
  With(Base64ToCipher(file.obj.encryptedIv), LAMBDA encryptedIvBuffer :
    IF masterKeyIv = InvalidBytes \/ ~encryptedKeyBuffer.ok \/ ~encryptedIvBuffer.ok
    THEN WithKeyAndIv(file, Txt_decryptionFailed, Txt_decryptionFailed) ELSE
  With(AesGcmDecrypt(masterKeyIv, userKey, encryptedKeyBuffer.value), LAMBDA keyBytes :
  With(AesGcmDecrypt(masterKeyIv, userKey, encryptedIvBuffer.value), LAMBDA ivBytes :
    IF ~keyBytes.ok \/ ~ivBytes.ok
    THEN WithKeyAndIv(file, Txt_decryptionFailed, Txt_decryptionFailed)
    ELSE WithKeyAndIv(file, safeBtoa(keyBytes.value.bytes),
                      safeBtoa(ivBytes.value.bytes)))))))

\* getDecryptedFileList(userKey): the list is decrypted with 'dummy-password'; an
\* error after the check of userKey ends in the empty list
Wrapped_getDecryptedFileList(w, userKey) ==
  IF userKey = NoKey THEN Throw("Invalid user encryption key. Please log in again.")
  ELSE IF ~w.index.exists THEN Return(JsArray(<<>>)) ELSE
  With(decryptFileList(w.index.encrypted_file_list, DummyPassword, w.index.salt),
       LAMBDA encryptedFileList :
    IF ~encryptedFileList.ok \/ encryptedFileList.value.js # "array"
    THEN Return(JsArray(<<>>))
    ELSE IF FirstNull(encryptedFileList.value.arr) # 0 THEN Return(JsArray(<<>>))
    ELSE IF w.index.iv = <<>>
      THEN Return(JsArray([i \in 1..Len(encryptedFileList.value.arr) |->
                             WithKeyAndIv(encryptedFileList.value.arr[i],
                                          Txt_legacy, Txt_legacy)]))
    ELSE Return(JsArray([i \in 1..Len(encryptedFileList.value.arr) |->
                           UnwrapRecord(encryptedFileList.value.arr[i], userKey,
                                        w.index.iv)])))

\* downloadFile(fileId, key, iv): download_count is raised first, then the object is
\* fetched and decrypted; there is no look at max_downloads
Wrapped_downloadFile(w, fileId, key, iv, fault) ==
  With(IF HasFile(w, fileId) THEN FileRow(w, fileId).download_count + 1 ELSE 1,
       LAMBDA newCount :
    IF fault = "database" THEN Done(Throw("updateError"), w) ELSE
  With([w EXCEPT !.files = { IF r.file_id = fileId
                             THEN [r EXCEPT !.download_count = newCount] ELSE r : r \in @ }],
       LAMBDA w1 :
    IF fault = "storage" \/ ~HasObject(w1, fileId) THEN Done(Throw("storageError"), w1)
    ELSE IF safeAtob(key) = InvalidBytes \/ safeAtob(iv) = InvalidBytes
      THEN Done(Throw("Invalid base64 string"), w1) ELSE
  With(importKey(safeAtob(key)), LAMBDA cryptoKey :
    IF ~cryptoKey.ok THEN Done(Throw(cryptoKey.error), w1) ELSE
  With(AesGcmDecrypt(safeAtob(iv), cryptoKey.value, ObjectAt(w1, fileId).data),
       LAMBDA decryptedBuffer :
    IF ~decryptedBuffer.ok THEN Done(Throw(decryptedBuffer.error), w1)
    ELSE Done(Return(JsUndefined),
              [w1 EXCEPT !.delivered = @ \cup { [fileId |-> fileId, n |-> newCount] }])))))

(***************************************************************************)
(* The file envelope as a state machine: one encryptFile call, then        *)
(* decryptFile on what it returned or on altered copies of it              *)
(***************************************************************************)
\* Date.now() readings
Clock == {1000}

\* nothing stored, nobody signed in with a password, no random value drawn yet
EmptyWorld ==
  [index |-> NoRow, files |-> {}, storage |-> {}, log |-> {}, delivered |-> {},
   cachedPassword |-> NoPassword, sessionStorage |-> NoPassword, rnd |-> 0]

NoCall == [op |-> "none"]

\* the two browser tabs of the user whose calls may interleave, and what a tab holds
\* between the steps of a call
Procs == { "p1", "p2" }
Idle(n) ==
  [at |-> "idle", op |-> "none", fileId |-> <<>>, row |-> NoRow, found |-> NoRow,
   wrote |-> NoRow, out |-> Return(JsUndefined), cycles |-> n]
NoProcesses == [p \in Procs |-> Idle(0)]

NoEnc == [made |-> FALSE]
NoDec == [called |-> FALSE]
NoUrl == [built |-> FALSE]
NoParsed == [done |-> FALSE]

\* the ciphertext inside the metadata text of an encryptFile result
MetadataCipher(e) == e.encryptedMetadata.ct

\* another spelling of a padded base64 text: the unused low bits of its last digit set
Respelled(text) ==
  IF Len(text) >= 2 /\ text[Len(text)] = "=" /\ text[Len(text) - 1] # "="
     /\ B64Index(text[Len(text) - 1]) % 4 = 0
  THEN [text EXCEPT ![Len(text) - 1] = B64Chars[B64Index(text[Len(text) - 1]) + 2]]
  ELSE text \o <<" ">>

\* ciphertexts a caller can hand to decryptFile: the two encryptFile made, each also
\* with a bit flipped
CipherInputs(e) ==
  { e.encryptedFile, FlipBit(e.encryptedFile),
    MetadataCipher(e), FlipBit(MetadataCipher(e)) }

MetadataInputs(e) == { CipherToBase64(c) : c \in CipherInputs(e) } \cup { MalformedBase64 }

KeyTextInputs(e) ==
  { e.key, Respelled(e.key), <<"!">>, arrayBufferToBase64(<<1, 2, 3>>) }
  \cup { arrayBufferToBase64(k) : k \in KeyPool }

IvTextInputs(e) ==
  { e.iv, Respelled(e.iv), <<"!">> } \cup { arrayBufferToBase64(i) : i \in IvPool }

EncryptFileCall ==
  /\ ~enc.made
  /\ \E file \in FilePool, rawKey \in KeyPool, iv \in IvPool, now \in Clock :
       enc' = [made |-> TRUE, file |-> file, out |-> encryptFile(file, rawKey, iv, now)]
  /\ dec' = NoDec
  /\ UNCHANGED << url, parsed, impl, world, ret, pc >>

DecryptFileCall ==
  /\ enc.made
  /\ ~dec.called
  /\ \E ef \in CipherInputs(enc.out), em \in MetadataInputs(enc.out),
        k \in KeyTextInputs(enc.out), i \in IvTextInputs(enc.out) :
       dec' = [called |-> TRUE, encryptedFile |-> ef, encryptedMetadata |-> em,
               key |-> k, iv |-> i, out |-> decryptFile(ef, em, k, i)]
  /\ UNCHANGED << enc, url, parsed, impl, world, ret, pc >>

FileInit ==
  /\ enc = NoEnc /\ dec = NoDec /\ url = NoUrl /\ parsed = NoParsed
  /\ impl = "none" /\ world = EmptyWorld /\ ret = NoCall /\ pc = NoProcesses
FileNext == EncryptFileCall \/ DecryptFileCall
FileSpec == FileInit /\ [][FileNext]_vars

(***************************************************************************)
(* The URL codec as a state machine: build a download URL, open it, parse  *)
(***************************************************************************)
\* identifiers generate_file_id returns: 8 letters and digits
FileIds == { <<"a","b","c","d","e","f","g","h">>, <<"Z","9","y","8","X","7","w","6">>,
             <<"k","e","y","0","i","v","0","0">> }

KeyTexts == { arrayBufferToBase64(k) : k \in KeyPool }
IvTexts == { arrayBufferToBase64(i) : i \in IvPool }

Built(by, fileId, key, iv, text) ==
  [built |-> TRUE, by |-> by, fileId |-> fileId, key |-> key, iv |-> iv, text |-> text]

GenerateDownloadUrlCall ==
  /\ \E fileId \in FileIds, key \in KeyTexts, iv \in IvTexts :
       url' = Built("generateDownloadUrl", fileId, key, iv,
                    generateDownloadUrl(fileId, key, iv))
  /\ parsed' = NoParsed
  /\ UNCHANGED << enc, dec, impl, world, ret, pc >>

UploadUrlCall ==
  /\ \E fileId \in FileIds, key \in KeyTexts, iv \in IvTexts :
       url' = Built("uploadEncryptedFile", fileId, key, iv,
                    UploadDownloadUrl(fileId, key, iv))
  /\ parsed' = NoParsed
  /\ UNCHANGED << enc, dec, impl, world, ret, pc >>

WrappedUploadUrlCall ==
  /\ \E fileId \in FileIds, key \in KeyTexts, iv \in IvTexts :
       url' = Built("uploadEncryptedFile (key wrapping)", fileId, key, iv,
                    WrappedUploadDownloadUrl(fileId, key, iv))
  /\ parsed' = NoParsed
  /\ UNCHANGED << enc, dec, impl, world, ret, pc >>

ParseUrlFragmentCall ==
  /\ url.built
  /\ ~parsed.done
  /\ LET r == parseUrlFragment(url.text)
     IN parsed' = [done |-> TRUE, key |-> r.key, iv |-> r.iv]
  /\ UNCHANGED << enc, dec, url, impl, world, ret, pc >>

UrlInit ==
  /\ enc = NoEnc /\ dec = NoDec /\ url = NoUrl /\ parsed = NoParsed
  /\ impl = "none" /\ world = EmptyWorld /\ ret = NoCall /\ pc = NoProcesses
UrlNext == GenerateDownloadUrlCall \/ UploadUrlCall \/ WrappedUploadUrlCall
           \/ ParseUrlFragmentCall
UrlSpec == UrlInit /\ [][UrlNext]_vars

(***************************************************************************)
(* The file managers as a state machine: one user, one browser page, the   *)
(* backend; every call runs to completion before the next starts           *)
(***************************************************************************)
\* how many random values one behaviour may draw
MaxRandom == 5

Impls == { "prompt", "stored", "secureData", "wrapped" }
\* the signed-in user, and another user id
UserId == "u1"
UserIds == { "u1", "u2" }
Passwords == { "pw1", "pw2" }
Faults == { "none", "storage", "database" }
UploadFiles == { f \in FilePool : f.name = "hello.txt" }
IndexFileIds == { <<"a","b","c","d","e","f","g","h">>, <<"k","e","y","0","i","v","0","0">> }
MaxDownloadsChoices == { JsUndefined, JsNumber(1) }

\* a record an outside caller hands to updateUserFileList: that fileId, size 999
CallerRecord(fileId) ==
  JsObject([id |-> fileId, fileId |-> fileId, originalName |-> "new.txt", size |-> 999,
            type |-> "text/plain", uploadDate |-> "now", expiresAt |-> JsUndefined,
            maxDownloads |-> JsUndefined, downloadCount |-> 0,
            key |-> arrayBufferToBase64([i \in 1..(KeyBits \div 8) |-> 251]),
            iv |-> arrayBufferToBase64([i \in 1..IvBytes |-> 251])])

\* key and IV texts a downloader can arrive with: the ones in the link of that file,
\* or the all-zero ones
LinkKeys(w, fileId) ==
  { arrayBufferToBase64([i \in 1..(KeyBits \div 8) |-> 0]) } \cup
  { arrayBufferToBase64(exportKey(o.data.k)) : o \in { x \in w.storage : x.path = fileId } }
LinkIvs(w, fileId) ==
  IF HasObject(w, fileId)
  THEN { arrayBufferToBase64(o.data.n) : o \in { x \in w.storage : x.path = fileId } }
  ELSE { arrayBufferToBase64([i \in 1..IvBytes |-> 0]) }

Budget(k) == world.rnd + k <= MaxRandom

\* how high a download counter may climb in one behaviour
MaxDownloadCount == 2

Finish(op, args, r) ==
  /\ world' = r.w
  /\ ret' = [op |-> op, args |-> args, out |-> r.out, before |-> world]
  /\ UNCHANGED << enc, dec, url, parsed, impl, pc >>

SetPasswordCall ==
  /\ impl = "stored"
  /\ \E password \in Passwords :
       Finish("setPassword", [password |-> password],
              Done(Return(JsUndefined), setPassword(world, password)))

ClearPasswordCall ==
  /\ impl = "stored"
  /\ Finish("clearPassword", [none |-> TRUE], Done(Return(JsUndefined), clearPassword(world)))

UploadCall ==
  /\ impl \in { "prompt", "stored" }
  /\ Budget(4)
  /\ \E file \in UploadFiles, maxDownloads \in MaxDownloadsChoices, fault \in Faults,
        fileId \in { id \in IndexFileIds : ~HasFile(world, id) },
        prompted \in Passwords \cup { NoPassword } :
       /\ impl = "stored" => prompted = NoPassword
       \* a call that fails at the backend never gets to the limit or to the prompt
       /\ fault # "none" => maxDownloads = JsUndefined /\ prompted = NoPassword
       /\ Finish("uploadEncryptedFile",
                 [file |-> file, fileId |-> fileId, password |-> prompted],
                 IF impl = "stored"
                 THEN Stored_uploadEncryptedFile(world, file, maxDownloads, fileId, fault)
                 ELSE Prompt_uploadEncryptedFile(world, file, maxDownloads, fileId, fault,
                                                 prompted))

\* uploadEncryptedFile of the key-wrapping variant
WrappedUploadCall ==
  /\ impl = "wrapped"
  /\ Budget(5)
  /\ \E file \in UploadFiles, userKey \in { MasterKey, NoKey }, password \in Passwords,
        fault \in Faults, fileId \in { id \in IndexFileIds : ~HasFile(world, id) } :
       \* a call that is refused or fails at the backend never uses the password
       /\ (fault # "none" \/ userKey = NoKey) => password = "pw1"
       /\ userKey = NoKey => fault = "none"
       /\ Finish("uploadEncryptedFile",
                 [file |-> file, fileId |-> fileId, password |-> password,
                  userKey |-> userKey],
                 Wrapped_uploadEncryptedFile(world, file, userKey, password, JsUndefined,
                                             fileId, fault))

DeleteCall ==
  /\ impl \in { "prompt", "stored" }
  /\ Budget(1)
  /\ \E fileId \in IndexFileIds, fault \in Faults, prompted \in Passwords \cup { NoPassword } :
       /\ impl = "stored" => prompted = NoPassword
       \* a call that fails at the backend never gets to the prompt
       /\ (fault # "none" \/ ~HasFile(world, fileId)) => prompted = NoPassword
       /\ ~HasFile(world, fileId) => fault = "none"
       /\ Finish("deleteEncryptedFile", [fileId |-> fileId, password |-> prompted],
                 IF impl = "stored"
                 THEN Stored_deleteEncryptedFile(world, fileId, fault)
                 ELSE Prompt_deleteEncryptedFile(world, fileId, fault, prompted))

DownloadCall ==
  /\ impl \in { "prompt", "stored" }
  /\ Budget(1)
  /\ \A row \in world.files : row.download_count < MaxDownloadCount
  /\ \E fileId \in IndexFileIds, fault \in { "none", "storage" }, signedIn \in BOOLEAN :
     \E key \in LinkKeys(world, fileId), iv \in LinkIvs(world, fileId) :
       /\ impl = "prompt" => signedIn
       \* a call that fails at the backend never gets to the session
       /\ (fault # "none" \/ ~HasFile(world, fileId)) => signedIn
       /\ ~HasFile(world, fileId) => fault = "none"
       /\ Finish("downloadEncryptedFile", [fileId |-> fileId, key |-> key, iv |-> iv],
                 IF impl = "stored"
                 THEN Stored_downloadEncryptedFile(world, fileId, key, iv, signedIn, fault)
                 ELSE Prompt_downloadEncryptedFile(world, fileId, key, iv, fault))

GetUserFileListCall ==
  /\ impl \in { "prompt", "stored" }
  /\ \E password \in Passwords \cup { NoPassword } :
       /\ impl = "stored" => password # NoPassword
       /\ Finish("getUserFileList", [password |-> password],
                 Done(IF impl = "stored" THEN Stored_getUserFileList(world, password)
                      ELSE Prompt_getUserFileList(world, password),
                      world))

UpdateUserFileListCall ==
  /\ impl \in { "prompt", "stored" }
  /\ Budget(2)
  /\ \E fileId \in IndexFileIds, password \in Passwords \cup { NoPassword } :
       /\ impl = "stored" => password # NoPassword
       /\ Finish("updateUserFileList", [newFile |-> CallerRecord(fileId), password |-> password],
                 IF impl = "stored"
                 THEN Stored_updateUserFileList(world, CallerRecord(fileId), password)
                 ELSE Prompt_updateUserFileList(world, CallerRecord(fileId), password))

RemoveFromUserFileListCall ==
  /\ impl \in { "prompt", "stored" }
  /\ Budget(2)
  /\ \E fileId \in IndexFileIds, password \in Passwords \cup { NoPassword } :
       /\ impl = "stored" => password # NoPassword
       /\ Finish("removeFromUserFileList", [fileId |-> fileId, password |-> password],
                 IF impl = "stored"
                 THEN Stored_removeFromUserFileList(world, fileId, password)
                 ELSE Prompt_removeFromUserFileList(world, fileId, password))

\* the text handed to SecureDataManager.decryptFileList: the stored blob
StoredTexts(w) == IF w.index.exists THEN { w.index.encrypted_file_list } ELSE {}

StoreEncryptedFileListCall ==
  /\ impl = "secureData"
  /\ Budget(1)
  /\ \E fileList \in { <<>> } \cup { << CallerRecord(id) >> : id \in IndexFileIds },
        fault \in { "none", "database" } :
       Finish("storeEncryptedFileList", [userId |-> UserId, fileList |-> fileList],
              storeEncryptedFileList(world, UserId, fileList, fault))

GetDecryptedFileListCall ==
  /\ impl = "secureData"
  /\ \E fault \in { "none", "database" } :
       Finish("getDecryptedFileList", [userId |-> UserId, fault |-> fault],
              Done(getDecryptedFileList(world, UserId, fault), world))

DecryptFileListCall ==
  /\ impl = "secureData"
  /\ \E encryptedList \in StoredTexts(world), userId \in UserIds :
       Finish("SecureDataManager.decryptFileList",
              [encryptedList |-> encryptedList, userId |-> userId],
              Done(SecureDataManager_decryptFileList(encryptedList, userId), world))

Init ==
  /\ enc = NoEnc /\ dec = NoDec /\ url = NoUrl /\ parsed = NoParsed
  /\ impl \in Impls
  /\ world = EmptyWorld
  /\ ret = NoCall
  /\ pc = NoProcesses

Next ==
  \/ SetPasswordCall
  \/ ClearPasswordCall
  \/ UploadCall
  \/ WrappedUploadCall
  \/ DeleteCall
  \/ DownloadCall
  \/ GetUserFileListCall
  \/ UpdateUserFileListCall
  \/ RemoveFromUserFileListCall
  \/ StoreEncryptedFileListCall
  \/ GetDecryptedFileListCall
  \/ DecryptFileListCall

Spec == Init /\ [][Next]_vars

(***************************************************************************)
(* Two tabs of one user run updateUserFileList and removeFromUserFileList  *)
(* of the stored-password variant; every await on the backend is a point   *)
(* where the other tab may run, so a call is a fetch step and a persist    *)
(* step                                                                    *)
(***************************************************************************)
\* how many index calls one tab makes in one behaviour
MaxCycles == 2

\* the password both tabs hold
TabPassword == "pw1"

\* the fileIds the tabs add or remove
TabFileIds == IndexFileIds \cup { <<"z","y","x","w","v","u","t","s">> }

Fetched(p, op, fileId) ==
  [at |-> "fetched", op |-> op, fileId |-> fileId, row |-> world.index, found |-> NoRow,
   wrote |-> NoRow, out |-> Return(JsUndefined), cycles |-> pc[p].cycles]

Persisted(p, r) ==
  [pc[p] EXCEPT !.at = "done", !.found = world.index,
                !.wrote = IF r.out.ok THEN r.w.index ELSE NoRow,
                !.out = r.out, !.cycles = @ + 1]

\* updateUserFileList up to the answer of the select
UpdateFetch(p) ==
  /\ pc[p].at # "fetched" /\ pc[p].cycles < MaxCycles
  /\ \E fileId \in TabFileIds :
       pc' = [pc EXCEPT ![p] = Fetched(p, "updateUserFileList", fileId)]
  /\ UNCHANGED << enc, dec, url, parsed, impl, world, ret >>

\* updateUserFileList from the answer of the select to its end
UpdatePersist(p) ==
  /\ pc[p].at = "fetched" /\ pc[p].op = "updateUserFileList"
  /\ LET r == Stored_updateFetched(world, pc[p].row, CallerRecord(pc[p].fileId),
                                   TabPassword)
     IN /\ world' = r.w
        /\ pc' = [pc EXCEPT ![p] = Persisted(p, r)]
  /\ UNCHANGED << enc, dec, url, parsed, impl, ret >>

\* removeFromUserFileList up to the answer of the select
RemoveFetch(p) ==
  /\ pc[p].at # "fetched" /\ pc[p].cycles < MaxCycles
  /\ \E fileId \in TabFileIds :
       pc' = [pc EXCEPT ![p] = Fetched(p, "removeFromUserFileList", fileId)]
  /\ UNCHANGED << enc, dec, url, parsed, impl, world, ret >>

\* removeFromUserFileList from the answer of the select to its end
RemovePersist(p) ==
  /\ pc[p].at = "fetched" /\ pc[p].op = "removeFromUserFileList"
  /\ LET r == Stored_removeFetched(world, pc[p].row, pc[p].fileId, TabPassword)
     IN /\ world' = r.w
        /\ pc' = [pc EXCEPT ![p] = Persisted(p, r)]
  /\ UNCHANGED << enc, dec, url, parsed, impl, ret >>

ConcInit ==
  /\ enc = NoEnc /\ dec = NoDec /\ url = NoUrl /\ parsed = NoParsed
  /\ impl = "stored"
  /\ world = EmptyWorld
  /\ ret = NoCall
  /\ pc = NoProcesses

ConcNext ==
  \/ \E p \in Procs : UpdateFetch(p)
  \/ \E p \in Procs : UpdatePersist(p)
  \/ \E p \in Procs : RemoveFetch(p)
  \/ \E p \in Procs : RemovePersist(p)

ConcSpec == ConcInit /\ [][ConcNext]_vars

(***************************************************************************)
(* The owner's session on the stored-password variant: the owner sets the  *)
(* password, uploads, adds records, downloads over the links and deletes,  *)
(* one call at a time and with a backend that does not fail, so that a     *)
(* behaviour gets to an index of several uploaded files                    *)
(***************************************************************************)
\* how many random values one behaviour of the owner's session may draw
MaxOwnerRandom == 7
OwnerBudget(k) == world.rnd + k <= MaxOwnerRandom

\* the key and IV texts in the link of a stored file
LinkOf(w, fileId) ==
  [key |-> arrayBufferToBase64(exportKey(ObjectAt(w, fileId).data.k)),
   iv |-> arrayBufferToBase64(ObjectAt(w, fileId).data.n)]

OwnerSetPasswordCall ==
  /\ world.cachedPassword = NoPassword
  /\ Finish("setPassword", [password |-> TabPassword],
            Done(Return(JsUndefined), setPassword(world, TabPassword)))

OwnerUploadCall ==
  /\ OwnerBudget(IF world.index.exists THEN 3 ELSE 4)
  /\ \E file \in UploadFiles, fileId \in { id \in IndexFileIds : ~HasFile(world, id) } :
       Finish("uploadEncryptedFile",
              [file |-> file, fileId |-> fileId, password |-> NoPassword],
              Stored_uploadEncryptedFile(world, file, JsUndefined, fileId, "none"))

OwnerUpdateUserFileListCall ==
  /\ OwnerBudget(IF world.index.exists THEN 1 ELSE 2)
  /\ \E fileId \in IndexFileIds :
       Finish("updateUserFileList",
              [newFile |-> CallerRecord(fileId), password |-> TabPassword],
              Stored_updateUserFileList(world, CallerRecord(fileId), TabPassword))

OwnerDownloadCall ==
  /\ OwnerBudget(1)
  /\ \E fileId \in { id \in IndexFileIds : HasFile(world, id) /\ HasObject(world, id) } :
       /\ FileRow(world, fileId).download_count < MaxDownloadCount
       /\ Finish("downloadEncryptedFile",
                 [fileId |-> fileId, key |-> LinkOf(world, fileId).key,
                  iv |-> LinkOf(world, fileId).iv],
                 Stored_downloadEncryptedFile(world, fileId, LinkOf(world, fileId).key,
                                              LinkOf(world, fileId).iv, TRUE, "none"))

OwnerDeleteCall ==
  /\ OwnerBudget(1)
  /\ \E fileId \in { id \in IndexFileIds : HasFile(world, id) } :
       Finish("deleteEncryptedFile", [fileId |-> fileId, password |-> NoPassword],
              Stored_deleteEncryptedFile(world, fileId, "none"))

OwnerRemoveFromUserFileListCall ==
  /\ OwnerBudget(1)
  /\ \E fileId \in IndexFileIds :
       Finish("removeFromUserFileList", [fileId |-> fileId, password |-> TabPassword],
              Stored_removeFromUserFileList(world, fileId, TabPassword))

OwnerInit ==
  /\ enc = NoEnc /\ dec = NoDec /\ url = NoUrl /\ parsed = NoParsed
  /\ impl = "stored"
  /\ world = EmptyWorld
  /\ ret = NoCall
  /\ pc = NoProcesses

OwnerNext ==
  \/ OwnerSetPasswordCall
  \/ OwnerUploadCall
  \/ OwnerUpdateUserFileListCall
  \/ OwnerDownloadCall
  \/ OwnerDeleteCall
  \/ OwnerRemoveFromUserFileListCall

OwnerSpec == OwnerInit /\ [][OwnerNext]_vars

(***************************************************************************)
(* The download page: FileDownload of components/FileDownload.tsx and its   *)
(* later version (src/unnamed/part_002), opened on the link of an uploaded  *)
(* file or on a damaged copy of that link                                   *)
(***************************************************************************)
Pages == { "FileDownload.tsx", "part_002" }

\* no error is shown
NoError == ""

\* !key || !iv
KeysMissing(link) == link.key = Undefined \/ link.iv = Undefined

\* downloadEncryptedFile gets as far as the download from storage: the row is there
\* and the download limit is not reached
FetchesStorage(w, fileId) == HasFile(w, fileId) /\ ~LimitReached(FileRow(w, fileId))

\* what a visit of the page came to: the error the page shows, whether it called
\* downloadEncryptedFile, whether that call asked the storage for the object and
\* whether decryptFile began a decryption, and the backend as the visit leaves it
Visit(error, called, fetched, began, w) ==
  [error |-> error, called |-> called, fetched |-> fetched, began |-> began, w |-> w]

\* handleDownload from the call of downloadEncryptedFile on
DownloadFromPage(w, fileId, link, signedIn) ==
  With(Stored_downloadEncryptedFile(w, fileId, link.key, link.iv, signedIn, "none"),
       LAMBDA r :
    Visit(IF r.out.ok THEN NoError ELSE r.out.error, TRUE, FetchesStorage(w, fileId),
          FetchesStorage(w, fileId) /\ HasObject(w, fileId)
          /\ decryptFile(ObjectAt(w, fileId).data, FileRow(w, fileId).encrypted_metadata,
                         link.key, link.iv).began # <<>>,
          r.w))

\* components/FileDownload.tsx: the effect on mount and, when the page then shows the
\* button, a click on Download
FileDownload(w, fileId, href, signedIn) ==
  With(parseUrlFragment(href), LAMBDA link :
    IF KeysMissing(link)
    THEN Visit("Invalid download link - encryption keys missing", FALSE, FALSE, FALSE, w)
    ELSE DownloadFromPage(w, fileId, link, signedIn))

\* the later version: the effect on mount also decodes key and iv, and the click asks
\* for the password and reads the file list with it before it downloads; a wrong
\* password reopens the prompt
FileDownload_withPassword(w, fileId, href, signedIn, password) ==
  With(parseUrlFragment(href), LAMBDA link :
    IF KeysMissing(link)
    THEN Visit("Invalid download link - encryption keys missing", FALSE, FALSE, FALSE, w)
    ELSE IF base64ToArrayBuffer(link.key) = InvalidBytes
            \/ base64ToArrayBuffer(link.iv) = InvalidBytes
    THEN Visit("Invalid download link - encryption keys are corrupted",
               FALSE, FALSE, FALSE, w)
    ELSE IF ~Stored_getUserFileList(w, password).ok
    THEN Visit(NoError, FALSE, FALSE, FALSE, w)
    ELSE DownloadFromPage(w, fileId, link, signedIn))

\* the damage a link can have
LinkDefects == { "none", "noFragment", "noKey", "noIv", "badKey", "badIv" }

\* a base64 text with its first character replaced by one that is no base64 digit
Corrupted(text) == [text EXCEPT ![1] = "!"]

\* the link of a file with that damage
LinkWith(defect, fileId, link) ==
  IF defect = "noFragment" THEN Concat(<< Origin, Txt_f, fileId >>)
  ELSE IF defect = "noKey"
    THEN Concat(<< Origin, Txt_f, fileId, <<"#">>, Txt_iv, <<"=">>, link.iv >>)
  ELSE IF defect = "noIv" THEN Concat(<< Origin, Txt_f, fileId, Txt_hashKey, link.key >>)
  ELSE IF defect = "badKey" THEN generateDownloadUrl(fileId, Corrupted(link.key), link.iv)
  ELSE IF defect = "badIv" THEN generateDownloadUrl(fileId, link.key, Corrupted(link.iv))
  ELSE generateDownloadUrl(fileId, link.key, link.iv)

OpenLinkCall ==
  /\ OwnerBudget(1)
  /\ \E page \in Pages, defect \in LinkDefects, signedIn \in BOOLEAN,
        password \in Passwords,
        fileId \in { id \in IndexFileIds : HasFile(world, id) /\ HasObject(world, id) } :
       /\ FileRow(world, fileId).download_count < MaxDownloadCount
       \* the first page asks for no password, and a visit that ends at the link
       \* gets neither to the password nor to the session
       /\ page = "FileDownload.tsx" => password = TabPassword
       /\ defect \in { "noFragment", "noKey", "noIv" } => signedIn /\ password = TabPassword
       /\ password # TabPassword => signedIn
       /\ With(IF page = "FileDownload.tsx"
               THEN FileDownload(world, fileId,
                                 LinkWith(defect, fileId, LinkOf(world, fileId)), signedIn)
               ELSE FileDownload_withPassword(world, fileId,
                                 LinkWith(defect, fileId, LinkOf(world, fileId)), signedIn,
                                 password),
               LAMBDA visit :
            /\ world' = visit.w
            /\ ret' = [op |-> "FileDownload",
                       args |-> [page |-> page, fileId |-> fileId, defect |-> defect,
                                 password |-> password],
                       out |-> visit, before |-> world])
  /\ UNCHANGED << enc, dec, url, parsed, impl, pc >>

PageNext ==
  \/ OwnerSetPasswordCall
  \/ OwnerUploadCall
  \/ OpenLinkCall

PageSpec == OwnerInit /\ [][PageNext]_vars

(***************************************************************************)
(* Key derivation on its own: deriveKeyFromPassword of encryption.ts and    *)
(* SecureFileIndex.deriveKey (src/unnamed/part_008), called with passwords  *)
(* and salts of any length                                                  *)
(***************************************************************************)
HexDigits == << "0","1","2","3","4","5","6","7","8","9","a","b","c","d","e","f" >>

\* SecureFileIndex.generateSalt writes its 16 random bytes as hexadecimal text:
\* Array.from(salt, byte => byte.toString(16).padStart(2, '0')).join('')
ToHex(bytes) ==
  [j \in 1..(2 * Len(bytes)) |->
     IF j % 2 = 1 THEN HexDigits[(bytes[(j + 1) \div 2] \div 16) + 1]
     ELSE HexDigits[(bytes[j \div 2] % 16) + 1]]

\* SecureFileIndex.deriveKey(password, salt): PBKDF2 over the password, salted with
\* the text of salt followed by 'file_index_encryption'; importKey and deriveKey of
\* Web Crypto take a password and a salt of any length, the empty ones too
SecureFileIndex_deriveKey(password, salt) ==
  Return([kind |-> "pbkdf2", password |-> password,
          salt |-> TextEncode(<< salt, "file_index_encryption" >>)])

\* deriveKeyFromPassword as a call with its outcome
DeriveKeyFromPassword(password, salt) == Return(deriveKeyFromPassword(password, salt))

\* how many different salts of one length are tried
MaxSalts == 6
\* the passwords and the salts handed to the derivations: the empty password, salts
\* of 0, 8, 15, 16, 17 and 32 bytes
KdfPasswords == Passwords \cup { "" }
KdfSalts == { RandomBytes(n, len) : n \in 1..MaxSalts, len \in { 0, 8, 15, 16, 17, 32 } }

DeriveKeyFromPasswordCall ==
  /\ \E password \in KdfPasswords, salt \in KdfSalts :
       ret' = [op |-> "deriveKeyFromPassword", args |-> [password |-> password, salt |-> salt],
               saltBytes |-> Len(salt), out |-> DeriveKeyFromPassword(password, salt)]
  /\ UNCHANGED << enc, dec, url, parsed, impl, world, pc >>

SecureFileIndexDeriveKeyCall ==
  /\ \E password \in KdfPasswords, salt \in KdfSalts :
       ret' = [op |-> "SecureFileIndex.deriveKey",
               args |-> [password |-> password, salt |-> ToHex(salt)],
               saltBytes |-> Len(salt),
               out |-> SecureFileIndex_deriveKey(password, ToHex(salt))]
  /\ UNCHANGED << enc, dec, url, parsed, impl, world, pc >>

KdfNext == DeriveKeyFromPasswordCall \/ SecureFileIndexDeriveKeyCall

KdfSpec == UrlInit /\ [][KdfNext]_vars

(***************************************************************************)
(* Index manager over SecureFileIndex (src/unnamed/part_006, second half,  *)
(* and src/unnamed/part_008): salt, IV and ciphertext are hexadecimal      *)
(* texts, the row of user_file_index holds all three                       *)
(***************************************************************************)
\* parseInt(byte, 16) of a text of two characters: NaN, which a Uint8Array stores as
\* 0, when the first is no hexadecimal digit; the digits before the first other
\* character count (the texts here are in lower case)
HexValue(c) ==
  IF \E d \in 1..16 : HexDigits[d] = c THEN (CHOOSE d \in 1..16 : HexDigits[d] = c) - 1
  ELSE -1
HexPair(a, b) ==
  IF HexValue(a) < 0 THEN 0
  ELSE IF HexValue(b) < 0 THEN HexValue(a)
  ELSE 16 * HexValue(a) + HexValue(b)

\* new Uint8Array(text.match(/.{2}/g)!.map(byte => parseInt(byte, 16))): match gives
\* null for a text of fewer than two characters, and .map of null is a TypeError
FromHex(text) ==
  IF Len(text) < 2 THEN InvalidBytes
  ELSE [j \in 1..(Len(text) \div 2) |-> HexPair(text[2 * j - 1], text[2 * j])]

\* the hexadecimal text of a ciphertext with its tag
CipherToHex(ct) == [hex |-> "cipher", ct |-> ct]

\* SecureFileIndex.encryptFileList(fileList, password): a salt is generated (draw n)
\* and an IV (draw n + 1), on every call
SecureFileIndex_encryptFileList(fileList, password, n) ==
  LET salt == ToHex(RandomBytes(n, SaltBytes))
      key == SecureFileIndex_deriveKey(password, salt).value
      iv == RandomBytes(n + 1, IvBytes)
      data == TextEncode(JSONStringify(JsArray(fileList)))
  IN [encryptedData |-> CipherToHex(AesGcmEncrypt(iv, key, data)),
      salt |-> salt,
      iv |-> ToHex(iv)]

\* SecureFileIndex.decryptFileList(encryptedData, password, salt, iv)
SecureFileIndex_decryptFileList(encryptedData, password, salt, iv) ==
  IF FromHex(iv) = InvalidBytes THEN Throw("TypeError") ELSE
  With(AesGcmDecrypt(FromHex(iv), SecureFileIndex_deriveKey(password, salt).value,
                     encryptedData.ct), LAMBDA decrypted :
    IF ~decrypted.ok THEN decrypted
    ELSE JSONParse(TextDecode(decrypted.value)))

\* the row of user_file_index that holds the outcome of encryptFileList
SecureRow(e) ==
  [exists |-> TRUE, encrypted_file_list |-> e.encryptedData, salt |-> e.salt, iv |-> e.iv]

\* getUserFileList(password)
Secure_getUserFileList(w, password) ==
  IF ~w.index.exists THEN Return(JsArray(<<>>)) ELSE
  With(SecureFileIndex_decryptFileList(w.index.encrypted_file_list, password,
                                       w.index.salt, w.index.iv),
       LAMBDA decryptedFileList :
    IF ~decryptedFileList.ok
    THEN Throw("Incorrect password. Please enter the password you used when uploading your first file.")
    ELSE IF decryptedFileList.value.js = "array" THEN decryptedFileList
    ELSE Return(JsArray(<<>>)))

\* updateUserFileList(userId, newFile, password): a list that does not decrypt is
\* taken for the empty list ("start fresh")
Secure_updateUserFileList(w, newFile, password) ==
  With(IF w.index.exists
       THEN SecureFileIndex_decryptFileList(w.index.encrypted_file_list, password,
                                            w.index.salt, w.index.iv)
       ELSE Return(JsArray(<<>>)), LAMBDA decrypted :
  With(IF decrypted.ok THEN decrypted.value.arr ELSE <<>>, LAMBDA existingFiles :
  With(filterOut(existingFiles, newFile.obj.fileId), LAMBDA updatedFiles :
    IF ~updatedFiles.ok THEN Done(updatedFiles, w)
    ELSE Done(Return(JsUndefined),
              [w EXCEPT !.rnd = w.rnd + 2,
                        !.index = SecureRow(SecureFileIndex_encryptFileList(
                                    Append(updatedFiles.value.arr, newFile),
                                    password, w.rnd + 1))]))))

\* removeFromUserFileList(userId, fileId, password)
Secure_removeFromUserFileList(w, fileId, password) ==
  IF ~w.index.exists THEN Done(Return(JsUndefined), w) ELSE
  With(SecureFileIndex_decryptFileList(w.index.encrypted_file_list, password,
                                       w.index.salt, w.index.iv), LAMBDA currentList :
    IF ~currentList.ok THEN Done(currentList, w) ELSE
  With(filterOut(currentList.value.arr, fileId), LAMBDA updatedList :
    IF ~updatedList.ok THEN Done(updatedList, w)
    ELSE Done(Return(JsUndefined),
              [w EXCEPT !.rnd = w.rnd + 2,
                        !.index = SecureRow(SecureFileIndex_encryptFileList(
                                    updatedList.value.arr, password, w.rnd + 1))])))

(***************************************************************************)
(* The SecureFileIndex manager as a state machine: one user adds records,  *)
(* removes them and lists them, with the right password or another one     *)
(***************************************************************************)
\* how many random values one behaviour of this manager may draw: three writes
MaxIndexRandom == 6
IndexBudget(k) == world.rnd + k <= MaxIndexRandom

SecureGetUserFileListCall ==
  /\ \E password \in Passwords :
       Finish("getUserFileList", [password |-> password],
              Done(Secure_getUserFileList(world, password), world))

SecureUpdateUserFileListCall ==
  /\ IndexBudget(2)
  /\ \E fileId \in IndexFileIds, password \in Passwords :
       Finish("updateUserFileList",
              [newFile |-> CallerRecord(fileId), password |-> password],
              Secure_updateUserFileList(world, CallerRecord(fileId), password))

SecureRemoveFromUserFileListCall ==
  /\ IndexBudget(2)
  /\ \E fileId \in IndexFileIds, password \in Passwords :
       Finish("removeFromUserFileList", [fileId |-> fileId, password |-> password],
              Secure_removeFromUserFileList(world, fileId, password))

IndexInit ==
  /\ enc = NoEnc /\ dec = NoDec /\ url = NoUrl /\ parsed = NoParsed
  /\ impl = "secureIndex"
  /\ world = EmptyWorld
  /\ ret = NoCall
  /\ pc = NoProcesses

IndexNext ==
  \/ SecureGetUserFileListCall
  \/ SecureUpdateUserFileListCall
  \/ SecureRemoveFromUserFileListCall

IndexSpec == IndexInit /\ [][IndexNext]_vars

(***************************************************************************)
(* The index blob on its own: encryptFileList on a list, a password and,   *)
(* or not, a salt, then decryptFileList on what it returned                *)
(***************************************************************************)
\* how many different random draws encryptFileList is tried with
MaxListDraws == 2

\* the lists handed to encryptFileList: up to two file records
ListPool ==
  { <<>> } \cup { << CallerRecord(a) >> : a \in IndexFileIds }
           \cup { << CallerRecord(a), CallerRecord(b) >> : a, b \in IndexFileIds }

\* the salts handed to encryptFileList: none, or 16 bytes
SaltPool == { NoSalt } \cup { generateSalt(n) : n \in { 9, 10 } }

EncryptFileListCall ==
  /\ ret.op # "encryptFileList"
  /\ \E fileList \in ListPool, password \in Passwords, salt \in SaltPool,
        n \in 1..MaxListDraws :
       ret' = [op |-> "encryptFileList",
               args |-> [fileList |-> fileList, password |-> password, salt |-> salt],
               out |-> encryptFileList(fileList, password, salt, n)]
  /\ UNCHANGED << enc, dec, url, parsed, impl, world, pc >>

DecryptFileListOfCall ==
  /\ ret.op = "encryptFileList"
  /\ \E password \in Passwords :
       ret' = [op |-> "decryptFileList",
               args |-> [encryptedList |-> ret.out.encryptedList, password |-> password,
                         saltBase64 |-> ret.out.salt],
               made |-> ret.args,
               out |-> decryptFileList(ret.out.encryptedList, password, ret.out.salt)]
  /\ UNCHANGED << enc, dec, url, parsed, impl, world, pc >>

ListNext == EncryptFileListCall \/ DecryptFileListOfCall

ListSpec == UrlInit /\ [][ListNext]_vars

(***************************************************************************)
(* The key-wrapping manager as a state machine: the signed-in user uploads *)
(* files, asks for the list with the keys, and files are downloaded over   *)
(* their links; the backend may fail during a download                     *)
(***************************************************************************)
\* how many random values one behaviour of this manager may draw: two uploads
MaxWrappedRandom == 10
WrappedBudget(k) == world.rnd + k <= MaxWrappedRandom

\* the passwords the page hands to uploadEncryptedFile
WrappedPasswords == { DummyPassword, TabPassword }

WrappedOwnerUploadCall ==
  /\ WrappedBudget(5)
  /\ \E file \in UploadFiles, password \in WrappedPasswords,
        fileId \in { id \in IndexFileIds : ~HasFile(world, id) } :
       Finish("uploadEncryptedFile",
              [file |-> file, fileId |-> fileId, password |-> password,
               userKey |-> MasterKey],
              Wrapped_uploadEncryptedFile(world, file, MasterKey, password, JsUndefined,
                                          fileId, "none"))

WrappedGetDecryptedFileListCall ==
  /\ \E userKey \in { MasterKey, NoKey } :
       Finish("getDecryptedFileList", [userKey |-> userKey],
              Done(Wrapped_getDecryptedFileList(world, userKey), world))

WrappedDownloadFileCall ==
  /\ \A row \in world.files : row.download_count < MaxDownloadCount
  /\ \E fileId \in IndexFileIds, fault \in Faults :
     \E key \in LinkKeys(world, fileId), iv \in LinkIvs(world, fileId) :
       Finish("downloadFile", [fileId |-> fileId, key |-> key, iv |-> iv, fault |-> fault],
              Wrapped_downloadFile(world, fileId, key, iv, fault))

WrappedInit ==
  /\ enc = NoEnc /\ dec = NoDec /\ url = NoUrl /\ parsed = NoParsed
  /\ impl = "wrapped"
  /\ world = EmptyWorld
  /\ ret = NoCall
  /\ pc = NoProcesses

WrappedNext ==
  \/ WrappedOwnerUploadCall
  \/ WrappedGetDecryptedFileListCall
  \/ WrappedDownloadFileCall

WrappedSpec == WrappedInit /\ [][WrappedNext]_vars

(***************************************************************************)
(* Two visitors download one file of limited downloads over its link; the  *)
(* select of the encrypted_files row is an await, so a call is the step up *)
(* to the answer of the select and the step from there to its end          *)
(***************************************************************************)
\* the limits the file is uploaded with
DownloadLimits == { 1, 2 }

\* the file both visitors ask for
SharedFileId == << "k","e","y","0","i","v","0","0" >>

\* the answer of .from('encrypted_files').select(...).eq('file_id', fileId).single()
SelectFile(w, fileId) ==
  IF HasFile(w, fileId) THEN [exists |-> TRUE, data |-> FileRow(w, fileId)] ELSE NoRow

\* downloadEncryptedFile of a visitor who is not signed in, from the answer of the
\* select on: the limit is tested on the row as it was read, the object is fetched
\* and decrypted, the file is handed to the browser, and download_count is set to
\* the count that was read plus one
Stored_downloadFetched(w, fetched, fileId, key, iv, by) ==
  IF ~fetched.exists THEN Done(Throw("File not found"), w) ELSE
  With(fetched.data, LAMBDA fileData :
    IF LimitReached(fileData) THEN Done(Throw("Download limit exceeded"), w)
    ELSE IF ~HasObject(w, fileData.storage_path) THEN Done(Throw("storageError"), w) ELSE
  With(decryptFile(ObjectAt(w, fileData.storage_path).data, fileData.encrypted_metadata,
                   key, iv), LAMBDA decrypted :
    IF ~decrypted.ok THEN Done(Throw(decrypted.error), w) ELSE
  With(fileData.download_count + 1, LAMBDA newDownloadCount :
    Done(Return(JsUndefined),
         logAction([w EXCEPT !.delivered = @ \cup { [fileId |-> fileId,
                                                     n |-> newDownloadCount, by |-> by] },
                             !.files = { IF r.file_id = fileId
                                         THEN [r EXCEPT !.download_count = newDownloadCount]
                                         ELSE r : r \in @ }],
                   "download", [fileId |-> fileId])))))

\* downloadEncryptedFile up to the answer of the select
DownloadFetch(p) ==
  /\ pc[p].at # "fetched" /\ pc[p].cycles < MaxCycles
  /\ pc' = [pc EXCEPT ![p] = [Fetched(p, "downloadEncryptedFile", SharedFileId)
                                EXCEPT !.row = SelectFile(world, SharedFileId)]]
  /\ UNCHANGED << enc, dec, url, parsed, impl, world, ret >>

\* downloadEncryptedFile from the answer of the select to its end
DownloadPersist(p) ==
  /\ pc[p].at = "fetched" /\ pc[p].op = "downloadEncryptedFile"
  /\ \E key \in LinkKeys(world, SharedFileId) :
       LET r == Stored_downloadFetched(world, pc[p].row, SharedFileId, key,
                                       LinkOf(world, SharedFileId).iv,
                                       << p, pc[p].cycles >>)
       IN /\ world' = r.w
          /\ pc' = [pc EXCEPT ![p] = [@ EXCEPT !.at = "done", !.out = r.out,
                                               !.cycles = @ + 1]]
  /\ UNCHANGED << enc, dec, url, parsed, impl, ret >>

\* the owner has set the password and uploaded the file with a download limit
DownloadInit ==
  /\ enc = NoEnc /\ dec = NoDec /\ url = NoUrl /\ parsed = NoParsed
  /\ impl = "stored"
  /\ \E file \in UploadFiles, m \in DownloadLimits :
       world = Stored_uploadEncryptedFile(setPassword(EmptyWorld, TabPassword), file,
                                          JsNumber(m), SharedFileId, "none").w
  /\ ret = NoCall
  /\ pc = NoProcesses

DownloadNext ==
  \/ \E p \in Procs : DownloadFetch(p)
  \/ \E p \in Procs : DownloadPersist(p)

DownloadSpec == DownloadInit /\ [][DownloadNext]_vars

(***************************************************************************)
(* Properties of the file envelope (FileSpec)                              *)
(***************************************************************************)
\* decryptFile was called with exactly what encryptFile returned
DecryptedAsReturned ==
  /\ enc.made
  /\ dec.called
  /\ dec.encryptedFile = enc.out.encryptedFile
  /\ dec.encryptedMetadata = enc.out.encryptedMetadata
  /\ dec.key = enc.out.key
  /\ dec.iv = enc.out.iv

\* C1 File round-trip: decryptFile applied to the encryptedFile, encryptedMetadata,
\* key and iv that encryptFile(F) returned resolves to a blob with F's bytes and to
\* a metadata object with F's name, size and MIME type.
C1_FileRoundTrip ==
  DecryptedAsReturned =>
    /\ dec.out.ok
    /\ dec.out.file.content = Bytes(enc.file.bytes)
    /\ dec.out.metadata.js = "object"
    /\ dec.out.metadata.obj.originalName = enc.file.name
    /\ dec.out.metadata.obj.size = FileSize(enc.file)
    /\ dec.out.metadata.obj.type = enc.file.type

\* the 10-byte file "hello12345", encrypted under a key whose base64 text has
\* '+', '/' and '=', decrypted with what encryptFile returned
C1_Witness ==
  /\ DecryptedAsReturned
  /\ enc.file.name = "hello.txt"
  /\ enc.out.key = arrayBufferToBase64([i \in 1..(KeyBits \div 8) |-> 251])
  /\ dec.out.ok
  /\ dec.out.metadata.obj.size = 10

\* some argument of decryptFile is not what encryptFile returned: another file
\* ciphertext, another metadata ciphertext, or a text that decodes to another key or IV
DecryptedAltered ==
  /\ enc.made
  /\ dec.called
  /\ \/ dec.encryptedFile # enc.out.encryptedFile
     \/ dec.encryptedMetadata # enc.out.encryptedMetadata
     \/ base64ToArrayBuffer(dec.key) # base64ToArrayBuffer(enc.out.key)
     \/ base64ToArrayBuffer(dec.iv) # base64ToArrayBuffer(enc.out.iv)

\* C2 Tamper detection: decryptFile called with a file ciphertext or a metadata
\* ciphertext that differs from what encryptFile produced, or with another key or
\* IV, fails with an error and returns neither a blob nor metadata.
C2_TamperDetected == DecryptedAltered => ~dec.out.ok

(***************************************************************************)
(* Properties of the URL codec (UrlSpec)                                   *)
(***************************************************************************)
\* C3 URL fragment isolation: in every download URL the code builds the key and the
\* IV come after the '#'; neither is in the path or the query string, the part of
\* the URL that is sent to the server, plain or percent-encoded.
C3_FragmentIsolation ==
  url.built =>
    LET target == RequestTarget(url.text)
    IN /\ ~Contains(target, url.key)
       /\ ~Contains(target, encodeURIComponent(url.key))
       /\ ~Contains(target, url.iv)
       /\ ~Contains(target, encodeURIComponent(url.iv))

\* C4 URL codec round-trip: parseUrlFragment on the URL generateDownloadUrl built
\* from (fileId, key, iv) returns the same key text and the same IV text.
C4_UrlRoundTrip ==
  (parsed.done /\ url.by = "generateDownloadUrl") =>
    /\ parsed.key = url.key
    /\ parsed.iv = url.iv

(***************************************************************************)
(* Properties of the index managers (Spec)                                 *)
(***************************************************************************)
\* the list a stored blob encrypts: what opens under the key and IV that made it
StoredList(row) ==
  IF row.exists THEN row.encrypted_file_list.ct.p.text.json.arr ELSE <<>>

\* the password whose key made a stored blob
BlobPassword(row) == row.encrypted_file_list.ct.k.password

\* listRecords of the running variant, asked with that password
ListRecords(w, password) ==
  IF impl = "stored" THEN Stored_getUserFileList(w, password)
  ELSE Prompt_getUserFileList(w, password)

\* updateUserFileList succeeded with a record whose fileId the index listed before
UpsertOfListedId ==
  /\ impl \in { "prompt", "stored" }
  /\ ret.op = "updateUserFileList"
  /\ ret.out.ok
  /\ ListRecords(ret.before, ret.args.password).ok
  /\ CountOf(ListRecords(ret.before, ret.args.password).value.arr,
             ret.args.newFile.obj.fileId) >= 1

\* C5 Index idempotent upsert: after updateUserFileList with a record whose fileId is
\* already in the index, listRecords returns exactly one record with that fileId, that
\* record is the new one (it has the new size), and the list is as long as before.
C5_IdempotentUpsert ==
  UpsertOfListedId =>
    LET before == ListRecords(ret.before, ret.args.password).value.arr
        after == ListRecords(world, ret.args.password)
    IN /\ after.ok
       /\ Len(after.value.arr) = Len(before)
       /\ CountOf(after.value.arr, ret.args.newFile.obj.fileId) = 1
       /\ \E i \in 1..Len(after.value.arr) : after.value.arr[i] = ret.args.newFile

\* C6 Index identifier uniqueness: in every state that uploads, addRecord calls,
\* deletes and downloads reach, no two records of the list the index blob encrypts
\* have the same fileId.
C6_UniqueFileIds ==
  impl \in { "prompt", "stored" } =>
    \A i, j \in 1..Len(StoredList(world.index)) :
      (i # j /\ StoredList(world.index)[i].js = "object"
             /\ StoredList(world.index)[j].js = "object")
        => StoredList(world.index)[i].obj.fileId # StoredList(world.index)[j].obj.fileId

\* getUserFileList of the stored-password variant was asked with a password other
\* than the one the stored blob was encrypted with
ReadWithWrongPassword ==
  /\ impl = "stored"
  /\ ret.op = "getUserFileList"
  /\ ret.before.index.exists
  /\ ret.args.password # BlobPassword(ret.before.index)

\* C7 Wrong secret: decryptFileList on the stored blob with a password other than the
\* one it was encrypted with ends in an error, and getUserFileList asked with such a
\* password ends in an error; neither returns a list.
C7_WrongSecretFails ==
  /\ ReadWithWrongPassword => ~ret.out.ok
  /\ (impl \in { "prompt", "stored" } /\ world.index.exists) =>
       \A password \in Passwords \ { BlobPassword(world.index) } :
         ~decryptFileList(world.index.encrypted_file_list, password, world.index.salt).ok

\* a blob that encrypts one record is stored, and getUserFileList was asked with
\* another password than the one that made it
C7_Witness ==
  /\ ReadWithWrongPassword
  /\ Len(StoredList(ret.before.index)) = 1
  /\ ret.args.password \in Passwords
  /\ ~ret.out.ok

\* the blob a list-reading call read, and whether that blob encrypts the empty list
BlobRead ==
  IF ret.op = "SecureDataManager.decryptFileList"
  THEN [exists |-> TRUE, blob |-> ret.args.encryptedList]
  ELSE IF ret.before.index.exists
    THEN [exists |-> TRUE, blob |-> ret.before.index.encrypted_file_list]
  ELSE [exists |-> FALSE]

EncryptsEmptyList(blob) ==
  IF impl = "secureData"
  THEN blob.txt = "json" /\ blob.json.obj.encryptedContent.ct.p.text.json.arr = <<>>
  ELSE blob.ct.p.text.json.arr = <<>>

\* C8 Decryption failures are not swallowed: getUserFileList, getDecryptedFileList
\* and SecureDataManager.decryptFileList return the empty list only when no blob
\* exists for the user or the blob encrypts the empty list.
C8_FailuresNotSwallowed ==
  (/\ ret.op \in { "getUserFileList", "getDecryptedFileList",
                   "SecureDataManager.decryptFileList" }
   /\ ret.out = Return(JsArray(<<>>)))
    => (~BlobRead.exists \/ EncryptsEmptyList(BlobRead.blob))

\* C10 The secret is never stored: neither the module-level cache nor sessionStorage
\* nor the index row nor the audit log holds a password of the user.
C10_SecretNeverStored ==
  \A password \in Passwords :
    /\ world.cachedPassword # password
    /\ world.sessionStorage # password
    /\ \A entry \in world.log : \A k \in DOMAIN entry.encrypted_log_entry :
         entry.encrypted_log_entry[k] # password

(***************************************************************************)
(* Properties of interleaved index calls (ConcSpec)                        *)
(***************************************************************************)
\* tabs p and q each ran updateUserFileList for a fileId the index did not list, with
\* different fileIds; both fetched the same row, so neither had persisted when the
\* other fetched; p persisted, and q came to persist on the row p had written
StaleWrite(p, q) ==
  /\ p # q
  /\ pc[p].at = "done" /\ pc[q].at = "done"
  /\ pc[p].op = "updateUserFileList" /\ pc[q].op = "updateUserFileList"
  /\ pc[p].fileId # pc[q].fileId
  /\ pc[p].row = pc[q].row
  /\ CountOf(StoredList(pc[p].row), pc[p].fileId) = 0
  /\ CountOf(StoredList(pc[q].row), pc[q].fileId) = 0
  /\ pc[p].out.ok
  /\ pc[q].found = pc[p].wrote

UploadEnvelope == EncryptUpload(ret.before, ret.args.file)

\* a text shows the key or the IV of that upload, plain or percent-encoded
ShowsKeyMaterial(text) ==
  \E secret \in { UploadEnvelope.key, UploadEnvelope.iv } :
    Contains(text, secret) \/ Contains(text, encodeURIComponent(secret))

\* C11 File key material never reaches the server in plaintext: after
\* uploadEncryptedFile no readable column of the encrypted_files rows, no storage
\* path, no readable column of the user_file_index row and no audit-log entry shows
\* the key or the IV of the uploaded file, the index list is stored encrypted under a
\* password-derived key, and in the download URL that is returned the key and the IV
\* stand only after the '#'.
C11_KeyMaterialStaysClient ==
  ret.op = "uploadEncryptedFile" =>
    /\ \A r \in world.files :
         ~ShowsKeyMaterial(r.file_id) /\ ~ShowsKeyMaterial(r.storage_path)
    /\ \A o \in world.storage : ~ShowsKeyMaterial(o.path)
    /\ world.index.exists =>
         /\ ~ShowsKeyMaterial(world.index.salt)
         /\ "iv" \in DOMAIN world.index => ~ShowsKeyMaterial(world.index.iv)
         /\ world.index.encrypted_file_list.b64 = "combined"
         /\ world.index.encrypted_file_list.ct.k.kind = "pbkdf2"
    /\ \A entry \in world.log :
         /\ DOMAIN entry.encrypted_log_entry \cap { "key", "iv" } = {}
         /\ "fileId" \in DOMAIN entry.encrypted_log_entry
              => ~ShowsKeyMaterial(entry.encrypted_log_entry.fileId)
    /\ ret.out.ok => ~ShowsKeyMaterial(RequestTarget(ret.out.value.obj.downloadUrl))

(***************************************************************************)
(* Properties of the owner's session (OwnerSpec)                           *)
(***************************************************************************)
\* the positions of the stored index list whose records uploads put there: they
\* carry the name of an uploaded file
UploadedAt(w) ==
  { i \in 1..Len(StoredList(w.index)) :
      /\ StoredList(w.index)[i].js = "object"
      /\ StoredList(w.index)[i].obj.originalName \in { f.name : f \in UploadFiles } }

\* C12 Key uniqueness: the key an uploadEncryptedFile call got from encryptFile is the
\* key of no file encrypted before, also when the same file is uploaded again, and no
\* two records that uploads put into the index carry the same key.
C12_KeyUniqueness ==
  /\ (ret.op = "uploadEncryptedFile" /\ ret.out.ok) =>
       \A o \in ret.before.storage :
         /\ LinkOf(ret.before, o.path).key # UploadEnvelope.key
         /\ o.data # UploadEnvelope.encryptedFile
  /\ \A i, j \in UploadedAt(world) :
       i # j => StoredList(world.index)[i].obj.key # StoredList(world.index)[j].obj.key

\* the same file was uploaded twice and both records are in the index
C12_Witness ==
  /\ ret.op = "uploadEncryptedFile" /\ ret.out.ok
  /\ \E o \in ret.before.storage : o.data.p = Bytes(ret.args.file.bytes)
  /\ Cardinality(UploadedAt(world)) = 2

(***************************************************************************)
(* Properties of the download page (PageSpec)                              *)
(***************************************************************************)
\* the errors with which the page says that the link carries no usable key material
MissingKeyMaterialErrors ==
  { "Invalid download link - encryption keys missing",
    "Invalid download link - encryption keys are corrupted" }

\* C13 Missing or malformed key material: a visit of the download page on a link whose
\* fragment lacks key or iv, or whose key or iv is no valid base64, ends in a
\* missing-key-material error; downloadEncryptedFile is not called, so nothing is
\* fetched from storage and no decryption begins.
C13_MissingKeyMaterial ==
  (ret.op = "FileDownload" /\ ret.args.defect # "none") =>
    /\ ret.out.error \in MissingKeyMaterialErrors
    /\ ~ret.out.called
    /\ ~ret.out.fetched
    /\ ~ret.out.began

(***************************************************************************)
(* Properties of key derivation (KdfSpec)                                  *)
(***************************************************************************)
\* C16 Invalid derivation inputs are rejected: a key derivation fails, and derives no
\* key, exactly when the secret is empty or the salt is not 16 bytes long.
C16_InvalidInputsRejected ==
  ret.op \in { "deriveKeyFromPassword", "SecureFileIndex.deriveKey" } =>
    (~ret.out.ok <=> (ret.args.password = "" \/ ret.saltBytes # SaltBytes))

(***************************************************************************)
(* Properties of the first record, the empty index and removal (Spec)      *)
(***************************************************************************)
\* the list the stored row opens to: its blob decrypted with that password and the
\* salt of the row
PersistedList(w, password) ==
  decryptFileList(w.index.encrypted_file_list, password, w.index.salt)

\* updateUserFileList succeeded for a user who had no index row
FirstAddRecord ==
  /\ impl \in { "prompt", "stored" }
  /\ ret.op = "updateUserFileList"
  /\ ret.out.ok
  /\ ~ret.before.index.exists

\* C14 First addRecord: after updateUserFileList(r) with password p for a user without
\* an index row, a row exists whose salt was drawn in this call, and listRecords with
\* p returns the list of the one record r (every property of it reads as in r).
C14_FirstAddRecord ==
  FirstAddRecord =>
    /\ world.index.exists
    /\ \E n \in (ret.before.rnd + 1)..world.rnd :
         world.index.salt = arrayBufferToBase64(generateSalt(n))
    /\ ListRecords(world, ret.args.password) = Return(JsArray(<< ret.args.newFile >>))

\* a first addRecord of each variant has happened
C14_Witness == FirstAddRecord /\ world.index.exists /\ world.rnd = 2

\* a list-reading or removing call ran for a user without an index row, on a backend
\* that answered
OnEmptyIndex ==
  /\ ret.op \in { "getUserFileList", "removeFromUserFileList", "getDecryptedFileList" }
  /\ ~ret.before.index.exists
  /\ ret.op = "getDecryptedFileList" => ret.args.fault = "none"

\* C15 Empty index is not an error: with no index row for the user, getUserFileList
\* and getDecryptedFileList return the empty list and removeFromUserFileList returns;
\* none raises an error and none writes anything, so no row is created.
C15_EmptyIndexNoError ==
  OnEmptyIndex =>
    /\ ret.out.ok
    /\ ret.op # "removeFromUserFileList" => ret.out.value = JsArray(<<>>)
    /\ world = ret.before

\* the stored-password getUserFileList ran on an empty index
C15_Witness == OnEmptyIndex /\ impl = "stored" /\ ret.op = "getUserFileList"

\* removeFromUserFileList succeeded on an index row whose list opened with the password
RemovedFromIndex ==
  /\ impl \in { "prompt", "stored" }
  /\ ret.op = "removeFromUserFileList"
  /\ ret.out.ok
  /\ ret.before.index.exists
  /\ PersistedList(ret.before, ret.args.password).ok

\* C17 removeRecord: after removeFromUserFileList(fileId) the stored row opens, with the
\* same password, to the list it opened to before without the records of that fileId:
\* every other record is there, unchanged and in the same order, and a fileId that
\* was not in the list leaves the list as it was.
C17_RemoveRecord ==
  RemovedFromIndex =>
    PersistedList(world, ret.args.password)
      = Return(JsArray(SelectSeq(PersistedList(ret.before, ret.args.password).value.arr,
                                 LAMBDA f : f.obj.fileId # ret.args.fileId)))

(***************************************************************************)
(* Properties of the owner's download (OwnerSpec)                          *)
(***************************************************************************)
\* the owner, with a stored password, downloaded a file that the index lists
OwnerDownloaded ==
  /\ ret.op = "downloadEncryptedFile"
  /\ ret.out.ok
  /\ getStoredPassword(ret.before).password # NoPassword
  /\ CountOf(StoredList(ret.before.index), ret.args.fileId) >= 1

\* the list with the download count of the records of that fileId raised by one
WithOneMoreDownload(list, fileId) ==
  [i \in 1..Len(list) |->
     IF list[i].obj.fileId = fileId
     THEN JsObject([list[i].obj EXCEPT !.downloadCount = @ + 1])
     ELSE list[i]]

WrongKeyOrIv ==
  \/ base64ToArrayBuffer(dec.key) # base64ToArrayBuffer(enc.out.key)
  \/ base64ToArrayBuffer(dec.iv) # base64ToArrayBuffer(enc.out.iv)

\* the decryption of the file body was started
BeganFile == \E i \in 1..Len(dec.out.began) : dec.out.began[i] = "file"

\* C19 Decryption order: decryptFile starts the decryption of the file body only after
\* it has decrypted the metadata, so a call with a wrong key or IV fails and has
\* started no decryption of the file body.
C19_MetadataBeforeFile ==
  dec.called =>
    /\ \A i \in 1..Len(dec.out.began) :
         dec.out.began[i] = "file" => \E j \in 1..(i - 1) : dec.out.began[j] = "metadata"
    /\ WrongKeyOrIv => ~dec.out.ok /\ ~BeganFile

\* the ciphertexts encryptFile made in one call
Encryptions == { enc.out.encryptedFile, enc.out.encryptedMetadata.ct }

\* C20 No (key, nonce) reuse: two ciphertexts made under the same key and the same IV
\* are ciphertexts of the same plaintext.
C20_NoNonceReuse ==
  enc.made =>
    \A c1, c2 \in Encryptions : (c1.k = c2.k /\ c1.n = c2.n) => c1.p = c2.p

(***************************************************************************)
(* The IV of the index blob (OwnerSpec)                                    *)
(***************************************************************************)
\* a call of the owner that wrote the index blob has returned
IndexWritten ==
  /\ ret.op \in { "uploadEncryptedFile", "updateUserFileList", "removeFromUserFileList",
                  "deleteEncryptedFile", "downloadEncryptedFile" }
  /\ ret.out.ok
  /\ world.index.exists
  /\ getStoredPassword(world).password # NoPassword

\* the IV in front of the stored blob
BlobIv(row) == SubSeq(row.encrypted_file_list.head, 1, ListIvPrefix)

\* C21 Fresh nonce per index write: the blob a write of the index persists (add,
\* remove, download-count update) is encrypted with an IV that was generated during
\* that write, which is not the IV of the blob it replaces: the random values of
\* different draws differ, so no two blobs of the user carry the same IV.
C21_FreshNoncePerWrite ==
  IndexWritten =>
    /\ \E n \in (ret.before.rnd + 1)..world.rnd :
         /\ BlobIv(world.index) = generateIV(n)
         /\ world.index.encrypted_file_list.ct.n = generateIV(n)
    /\ ret.before.index.exists =>
         /\ BlobIv(world.index) # BlobIv(ret.before.index)
         /\ world.index.encrypted_file_list.ct.k = ret.before.index.encrypted_file_list.ct.k

\* the download-count update of a download has rewritten a populated index
C21_Witness ==
  IndexWritten /\ ret.op = "downloadEncryptedFile" /\ ret.before.index.exists

(***************************************************************************)
(* Properties of the SecureFileIndex manager (IndexSpec)                   *)
(***************************************************************************)
\* addRecord or removeRecord returned on an index that was populated
WriteOnPopulated ==
  /\ ret.op \in { "updateUserFileList", "removeFromUserFileList" }
  /\ ret.out.ok
  /\ ret.before.index.exists

\* C22 Salt is kept across writes: after addRecord or removeRecord on a populated
\* index the row holds the salt it held before the call; only the write that
\* populates an empty index stores a new salt.
C22_SaltKept ==
  WriteOnPopulated => world.index.exists /\ world.index.salt = ret.before.index.salt

\* addRecord or removeRecord was called with another password than the one whose
\* key encrypted the stored blob
WrongSecretWrite ==
  /\ ret.op \in { "updateUserFileList", "removeFromUserFileList" }
  /\ ret.before.index.exists
  /\ BlobPassword(ret.before.index) # ret.args.password

\* C25 State unchanged on wrong secret: addRecord or removeRecord with a password that
\* cannot decrypt the stored blob fails and leaves the row of the index (blob, salt,
\* IV) as it was; the index is never replaced by a list of the new record alone.
C25_UnchangedOnWrongSecret ==
  WrongSecretWrite => ~ret.out.ok /\ world.index = ret.before.index

(***************************************************************************)
(* Properties of the index blob (ListSpec)                                 *)
(***************************************************************************)
\* C23 Index blob round-trip: decryptFileList, given the encryptedList and the salt
\* that encryptFileList(L, p, s) returned and the same password p, returns L, whether
\* the salt was given or generated; the first 12 bytes of the blob, which
\* decryptFileList splits off, are the IV the list was encrypted with.
C23_IndexBlobRoundTrip ==
  (ret.op = "decryptFileList" /\ ret.args.password = ret.made.password) =>
    /\ ret.out = Return(JsArray(ret.made.fileList))
    /\ SubSeq(ret.args.encryptedList.head, 1, ListIvPrefix) = ret.args.encryptedList.ct.n

\* a list of two records, encrypted under a generated salt, was decrypted with the
\* password it was encrypted with
C23_Witness ==
  /\ ret.op = "decryptFileList" /\ ret.args.password = ret.made.password
  /\ Len(ret.made.fileList) = 2 /\ ret.made.salt = NoSalt /\ ret.out.ok

(***************************************************************************)
(* Properties of the stored index row, of failed downloads and of what the *)
(* backend is sent (Spec)                                                  *)
(***************************************************************************)
\* a call that adds or removes a record (on its own, or within an upload or a delete)
\* returned, and the row it found, if any, opened with the password it used, which is
\* the password of the key of the blob that is stored now
WriteWithOwnersPassword ==
  /\ impl \in { "prompt", "stored" }
  /\ ret.op \in { "updateUserFileList", "removeFromUserFileList", "uploadEncryptedFile",
                  "deleteEncryptedFile" }
  /\ ret.out.ok
  /\ world.index.exists
  /\ ret.before.index.exists =>
       PersistedList(ret.before, BlobPassword(world.index)).ok

\* C24 The persisted index is always decryptable by its owner: after addRecord and
\* removeRecord calls with one password p, the salt in the row is the salt of the key
\* that encrypted the stored blob, and the row opens with p.
C24_IndexStaysDecryptable ==
  WriteWithOwnersPassword =>
    /\ world.index.encrypted_file_list.ct.k
         = deriveKeyFromPassword(BlobPassword(world.index),
                                 base64ToArrayBuffer(world.index.salt))
    /\ PersistedList(world, BlobPassword(world.index)).ok

\* the index lists a fileId exactly when its encrypted_files row and its storage
\* object are there
IndexMatchesFiles(w) ==
  \A fileId \in FileIds :
    (CountOf(StoredList(w.index), fileId) >= 1)
      <=> (HasFile(w, fileId) /\ HasObject(w, FileRow(w, fileId).storage_path))

\* C26 Index and file metadata stay consistent: an uploadEncryptedFile or
\* deleteEncryptedFile call that starts in a state where the index lists a fileId
\* exactly when its row and its storage object exist ends in such a state, also when
\* the call fails part-way (no password, wrong password, storage or database error).
C26_IndexMatchesFiles ==
  (/\ ret.op \in { "uploadEncryptedFile", "deleteEncryptedFile" }
   /\ IndexMatchesFiles(ret.before)) => IndexMatchesFiles(world)

(***************************************************************************)
(* Properties of the key-wrapping manager (WrappedSpec)                    *)
(***************************************************************************)
\* what a download fails with when the file is not found, the limit is reached, the
\* storage fetch fails, or key, IV or ciphertext do not decrypt
DownloadFailures ==
  { "File not found", "Download limit exceeded", "storageError", "Invalid base64 string",
    "InvalidCharacterError", "DataError", "OperationError" }

\* C27 A failed download changes nothing: after a download that failed because the
\* file was not found, the limit was reached, the storage fetch failed or the
\* decryption failed, every encrypted_files row has the download_count it had, and
\* nothing was handed to the user.
C27_FailedDownloadChangesNothing ==
  (/\ ret.op \in { "downloadEncryptedFile", "downloadFile" }
   /\ ~ret.out.ok
   /\ ret.out.error \in DownloadFailures) =>
    /\ world.files = ret.before.files
    /\ world.delivered = ret.before.delivered

\* the key and the IV a file was encrypted with, as base64 texts, read off its
\* storage object
RealKeyAndIv(w, fileId) ==
  [key |-> arrayBufferToBase64(exportKey(ObjectAt(w, fileId).data.k)),
   iv |-> arrayBufferToBase64(ObjectAt(w, fileId).data.n)]

\* C30 Wrapped keys stay unwrappable: every record of the index has its encryptedKey
\* and encryptedIv encrypted under the master-key IV stored in the index row, and
\* getDecryptedFileList with the user's key returns, for every file of the index, the
\* key and the IV the file was encrypted with.
C30_WrappedKeysUnwrappable ==
  /\ world.index.exists =>
       \A i \in 1..Len(StoredList(world.index)) :
         /\ StoredList(world.index)[i].obj.encryptedKey.ct.n = safeAtob(world.index.iv)
         /\ StoredList(world.index)[i].obj.encryptedIv.ct.n = safeAtob(world.index.iv)
  /\ (/\ ret.op = "getDecryptedFileList" /\ ret.args.userKey = MasterKey
      /\ world.index.exists
      /\ BlobPassword(world.index) = DummyPassword) =>
       /\ ret.out.ok
       /\ Len(ret.out.value.arr) = Len(StoredList(world.index))
       /\ \A i \in 1..Len(ret.out.value.arr) :
            /\ ret.out.value.arr[i].obj.key
                 = RealKeyAndIv(world, ret.out.value.arr[i].obj.fileId).key
            /\ ret.out.value.arr[i].obj.iv
                 = RealKeyAndIv(world, ret.out.value.arr[i].obj.fileId).iv

(***************************************************************************)
(* Properties of interleaved downloads (DownloadSpec)                      *)
(***************************************************************************)
\* how often a file was decrypted and handed to a visitor
Deliveries(w, fileId) == Cardinality({ d \in w.delivered : d.fileId = fileId })

\* C28 Download limit under concurrency: a file with max_downloads = m > 0 is
\* decrypted and delivered at most m times under every interleaving of
\* downloadEncryptedFile calls, and its download_count never exceeds m.
C28_DownloadLimit ==
  \A row \in world.files :
    (row.max_downloads.js = "number" /\ row.max_downloads.num > 0) =>
      /\ Deliveries(world, row.file_id) <= row.max_downloads.num
      /\ row.download_count <= row.max_downloads.num

(***************************************************************************)
(* Properties of what the backend is sent about a file (Spec)              *)
(***************************************************************************)
\* C29 The original file name reaches the server only encrypted: no encrypted_files
\* row holds the name of an uploaded file as plain text, no audit-log entry holds
\* it, and the storage paths are made of the fileId alone.
C29_FileNameOnlyEncrypted ==
  \A f \in FilePool :
    /\ \A r \in world.files : r.encrypted_filename # PlainText(f.name)
    /\ \A e \in world.log :
         e.log_type = "upload" => e.encrypted_log_entry.fileName # f.name
    /\ \A o \in world.storage : o.path \in FileIds

====
